---- MODULE Spec2Model ----
(***************************************************************************)
(* Reflex Rush (reflex_rush.ino): the challenge and round engine.          *)
(*                                                                         *)
(* Every global of the sketch is a variable.  Every function of the sketch *)
(* is an operator from a machine state m (a record with one field per      *)
(* global) to the machine state after the call, so that one iteration of   *)
(* loop() is one action that composes the tick and the button handler in   *)
(* the order of the code.  The display, the LEDs and the timers and flags  *)
(* that only sequence display output (attractPulse, attractShowHi,         *)
(* scoreBlinkTimer, scoreBlinkOn, the g67Flash, g67Blink, g67NotCue and    *)
(* g67TeachLed flags and timers) belong to the display collaborator and    *)
(* are not modelled.  random() is a nondeterministic input.                *)
(***************************************************************************)
EXTENDS Integers, Sequences, FiniteSets, TLC

(***************************************************************************)
(* Program constants                                                       *)
(***************************************************************************)
WINDOW_START_MS == 1800
HARD_START_MS == 1000
WINDOW_MIN_MS == 360
WINDOW_STEP_MS == 20
GAMEOVER_SCORE_MS == 2000
GAMEOVER_HI_MS == 2000
PTRN_TIMEOUT_MS == 1000
PTRN_SHOW_STEP_MS == 260
PTRN_GAP_MS == 120
PTRN_MAX_SEQ == 20
BOOT_CLEAR_DELAY_MS == 200
BOOT_HI0_MS == 1000
G67_INTRO_POINTS == 10
G67_START_INTRO_MS == 2600
G67_START_TRICK_MS == 2100
G67_MIN_MS == 520
G67_STEP_MS == 30
G67_CHORD_WIN_MS == 520
G67_SEQ_WIN_MS == 950
BRT_INTERNAL_MAX == 0
BRT_INTERNAL_MIN == 3
EEPROM_BASE_ADDR == 0

MODE_ATTRACT == "MODE_ATTRACT"
MODE_PLAYING == "MODE_PLAYING"
MODE_GAMEOVER == "MODE_GAMEOVER"

GAME_CLSC == 0
GAME_HARD == 1
GAME_NOT == 2
GAME_PTRN == 3
GAME_67 == 4
GAME_BRT == 5
GAME_COUNT == 6

G67_INTRO == "G67_INTRO"
G67_SWAP == "G67_SWAP"
G67_NOT == "G67_NOT"
G67_FLASH == "G67_FLASH"
G67_FLASH_NOT == "G67_FLASH_NOT"
G67_GHOST == "G67_GHOST"
G67_BLINK == "G67_BLINK"
G67_CHORD == "G67_CHORD"
G67_SEQ_67 == "G67_SEQ_67"
G67_SEQ_76 == "G67_SEQ_76"
G67_SHORT_WIN == "G67_SHORT_WIN"
G67_TRICK_MIX == "G67_TRICK_MIX"

PTRN_SHOWING == "PTRN_SHOWING"
PTRN_INPUT == "PTRN_INPUT"

\* MultiFuncShield.h: the action bits of a button event; the sketch compares
\* (raw & B11000000) with BUTTON_PRESSED_IND.
BUTTON_PRESSED_IND == 0

(***************************************************************************)
(* Fixed-width integers.  uint16_t is a number modulo 2^16.  uint32_t (the *)
(* millisecond clock and every timestamp) is a pair <<high, low>> of       *)
(* 16-bit halves, with addition and subtraction modulo 2^32.               *)
(***************************************************************************)
W16 == 65536

U16(n) == n % W16

U32(n) == <<(n \div W16) % W16, n % W16>>

Add32(a, n) ==
  LET lo == a[2] + (n % W16)
      hi == a[1] + (n \div W16) + (lo \div W16)
  IN  <<hi % W16, lo % W16>>

\* a + b for two uint32_t
Plus32(a, b) ==
  LET lo == a[2] + b[2]
  IN  <<(a[1] + b[1] + (lo \div W16)) % W16, lo % W16>>

Sub32(a, b) ==
  LET lo == a[2] - b[2]
      borrow == IF lo < 0 THEN 1 ELSE 0
  IN  <<(a[1] - b[1] - borrow) % W16, lo % W16>>

\* a >= n for a uint32_t a and a number 0 <= n < 2^31
Ge32(a, n) == IF a[1] >= 32768 THEN TRUE ELSE a[1] * W16 + a[2] >= n

Lt32(a, n) == ~Ge32(a, n)

(***************************************************************************)
(* struct Timer                                                            *)
(***************************************************************************)
Timer0 == [t0 |-> U32(0), dur |-> 0]

TimerStart(now, duration) == [t0 |-> now, dur |-> duration]

\* Mutant: the timer is done when the clock has reached t0 + dur.
TimerDone_Deadline(t, now) ==
  LET end == Add32(t.t0, t.dur)
  IN  t.dur # 0 /\ (now[1] > end[1] \/ (now[1] = end[1] /\ now[2] >= end[2]))

\* Mutant: a timer of duration 0 is done at once.
TimerDone_NoSentinel(t, now) == Ge32(Sub32(now, t.t0), t.dur)

TimerDone(t, now) == t.dur # 0 /\ Ge32(Sub32(now, t.t0), t.dur)

TimerRemain(t, now) ==
  IF t.dur = 0 THEN 0
  ELSE LET e == Sub32(now, t.t0)
       IN  IF Ge32(e, t.dur) THEN 0 ELSE t.dur - (e[1] * W16 + e[2])

(***************************************************************************)
(* Party Edition sketch: constants and types.  Its other constants         *)
(* (WINDOW_START_MS, HARD_START_MS, WINDOW_MIN_MS, WINDOW_STEP_MS,         *)
(* GAMEOVER_SCORE_MS, GAMEOVER_HI_MS, BOOT_CLEAR_DELAY_MS, BOOT_HI0_MS,    *)
(* EEPROM_BASE_ADDR, GAME_CLSC, GAME_HARD, GAME_NOT) have the names and    *)
(* the values of reflex_rush.ino.                                          *)
(***************************************************************************)
CORD_TIMEOUT_MS == 1000
CORD_SHOW_STEP_MS == 260
CORD_GAP_MS == 120
CORD_MAX_SEQ == 20
SIX7_CHORD_WINDOW_MS == 450
SIX7_SEQ_WINDOW_MS == 900

GAME_CORD == 3
GAME_6OR7 == 4
GAME_COUNT_PARTY == 5

BTN_DOWN == "BTN_DOWN"
\* BTN_UP or BTN_NONE: the handlers only compare with BTN_DOWN.
BTN_UP == "BTN_UP"

CORD_SHOWING == "CORD_SHOWING"
CORD_INPUT == "CORD_INPUT"

S7_NORMAL == 0
S7_SWAP == 1
S7_NOT == 2
S7_FLASH == 3
S7_FLASH_NOT == 4
S7_MID65 == 5
S7_MID65_NOT == 6
S7_CHORD == 7
S7_CHORD_SWAP == 8
S7_SEQ_67 == 9
S7_SEQ_76 == 10
S7_SHORT_WINDOW == 11
S7_BLINK == 12
S7_GHOST == 13
S7_TRICK_MIX == 14
S7_COUNT == 15

\* Timer::done of the Party Edition: no test of dur.
TimerDoneParty(t, now) == Ge32(Sub32(now, t.t0), t.dur)

GamesParty == 0 .. (GAME_COUNT_PARTY - 1)

hiAddrParty(id) == EEPROM_BASE_ADDR + id * 2

EepromAddrsParty == 0 .. (hiAddrParty(GAME_COUNT_PARTY) - 1)

\* The globals of the Party Edition as the sketch initializes them, with an
\* erased store, before setup() has run.
PowerOnParty ==
  [ pc |-> "boot", clock |-> U32(0),
    EEPROM |-> [a \in EepromAddrsParty |-> 255],
    gMode |-> MODE_ATTRACT, gGame |-> GAME_CLSC,
    G |-> [score |-> 0, hi |-> [g \in GamesParty |-> 0], windowMs |-> 0,
           roundStartMs |-> U32(0), expectedBtn |-> 0, forbidA |-> 0, forbidB |-> 0],
    gBtn |-> [num |-> 0, act |-> BTN_UP, has |-> FALSE],
    gModeStartMs |-> U32(0),
    cordPhase |-> CORD_SHOWING,
    cordSeq |-> [i \in 0 .. (CORD_MAX_SEQ - 1) |-> 0],
    cordLen |-> 1, cordIndex |-> 0, cordShowTimer |-> Timer0, cordShowPos |-> 0,
    cordShowingDigit |-> TRUE, cordInputTimer |-> Timer0,
    six7Stage |-> S7_NORMAL, six7StageBlock |-> 255, six7ShowDigit |-> 6,
    six7DisplaySide |-> 0, six7Not |-> FALSE,
    six7ChordWaitingSecond |-> FALSE, six7ChordFirstBtn |-> 0,
    six7ChordTimer |-> Timer0,
    six7SeqWaitingSecond |-> FALSE, six7SeqFirstBtn |-> 0, six7SeqTimer |-> Timer0 ]

(***************************************************************************)
(* Globals                                                                 *)
(***************************************************************************)
VARIABLES
  pc,                    \* "boot" before setup() has run, "loop" afterwards
  clock,                 \* millis()
  EEPROM,                \* the bytes of the non-volatile store
  gMode, gGame, G, gBtn, gModeStartMs, gBrightnessInternal,
  ptrnPhase, ptrnSeq, ptrnLen, ptrnIndex, ptrnShowTimer, ptrnShowPos,
  ptrnShowingDigit, ptrnInputTimer,
  g67Stage, g67Digit, g67Side, g67NotFlag,
  g67RoundChord, g67ChordWaitingSecond, g67ChordFirstBtn, g67ChordTimer,
  g67RoundSeq, g67SeqWaitingSecond, g67SeqFirstBtn, g67SeqTimer,
  g67NextStageAtScore,
  goCalls,               \* calls of enterGameOver since the last enterPlaying
  hiSaves,               \* calls of eepromSaveHi since the last enterPlaying
  party                  \* the globals of the Party Edition sketch, its pc and
                         \* its clock: the two sketches never run together

vars ==
  <<pc, clock, EEPROM, gMode, gGame, G, gBtn, gModeStartMs, gBrightnessInternal,
    ptrnPhase, ptrnSeq, ptrnLen, ptrnIndex, ptrnShowTimer, ptrnShowPos,
    ptrnShowingDigit, ptrnInputTimer,
    g67Stage, g67Digit, g67Side, g67NotFlag,
    g67RoundChord, g67ChordWaitingSecond, g67ChordFirstBtn, g67ChordTimer,
    g67RoundSeq, g67SeqWaitingSecond, g67SeqFirstBtn, g67SeqTimer,
    g67NextStageAtScore, goCalls, hiSaves, party>>

\* The globals of reflex_rush.ino
inoVars ==
  <<pc, clock, EEPROM, gMode, gGame, G, gBtn, gModeStartMs, gBrightnessInternal,
    ptrnPhase, ptrnSeq, ptrnLen, ptrnIndex, ptrnShowTimer, ptrnShowPos,
    ptrnShowingDigit, ptrnInputTimer,
    g67Stage, g67Digit, g67Side, g67NotFlag,
    g67RoundChord, g67ChordWaitingSecond, g67ChordFirstBtn, g67ChordTimer,
    g67RoundSeq, g67SeqWaitingSecond, g67SeqFirstBtn, g67SeqTimer,
    g67NextStageAtScore, goCalls, hiSaves>>

Games == 0 .. (GAME_COUNT - 1)

\* The machine state: the globals as one record.
Cur ==
  [ EEPROM |-> EEPROM, gMode |-> gMode, gGame |-> gGame, G |-> G, gBtn |-> gBtn,
    gModeStartMs |-> gModeStartMs, gBrightnessInternal |-> gBrightnessInternal,
    ptrnPhase |-> ptrnPhase, ptrnSeq |-> ptrnSeq, ptrnLen |-> ptrnLen,
    ptrnIndex |-> ptrnIndex, ptrnShowTimer |-> ptrnShowTimer,
    ptrnShowPos |-> ptrnShowPos, ptrnShowingDigit |-> ptrnShowingDigit,
    ptrnInputTimer |-> ptrnInputTimer,
    g67Stage |-> g67Stage, g67Digit |-> g67Digit, g67Side |-> g67Side,
    g67NotFlag |-> g67NotFlag, g67RoundChord |-> g67RoundChord,
    g67ChordWaitingSecond |-> g67ChordWaitingSecond,
    g67ChordFirstBtn |-> g67ChordFirstBtn, g67ChordTimer |-> g67ChordTimer,
    g67RoundSeq |-> g67RoundSeq, g67SeqWaitingSecond |-> g67SeqWaitingSecond,
    g67SeqFirstBtn |-> g67SeqFirstBtn, g67SeqTimer |-> g67SeqTimer,
    g67NextStageAtScore |-> g67NextStageAtScore,
    goCalls |-> goCalls, hiSaves |-> hiSaves ]

\* The globals after a call that leaves the machine in state m.
Commit(m) ==
  /\ EEPROM' = m.EEPROM
  /\ gMode' = m.gMode
  /\ gGame' = m.gGame
  /\ G' = m.G
  /\ gBtn' = m.gBtn
  /\ gModeStartMs' = m.gModeStartMs
  /\ gBrightnessInternal' = m.gBrightnessInternal
  /\ ptrnPhase' = m.ptrnPhase
  /\ ptrnSeq' = m.ptrnSeq
  /\ ptrnLen' = m.ptrnLen
  /\ ptrnIndex' = m.ptrnIndex
  /\ ptrnShowTimer' = m.ptrnShowTimer
  /\ ptrnShowPos' = m.ptrnShowPos
  /\ ptrnShowingDigit' = m.ptrnShowingDigit
  /\ ptrnInputTimer' = m.ptrnInputTimer
  /\ g67Stage' = m.g67Stage
  /\ g67Digit' = m.g67Digit
  /\ g67Side' = m.g67Side
  /\ g67NotFlag' = m.g67NotFlag
  /\ g67RoundChord' = m.g67RoundChord
  /\ g67ChordWaitingSecond' = m.g67ChordWaitingSecond
  /\ g67ChordFirstBtn' = m.g67ChordFirstBtn
  /\ g67ChordTimer' = m.g67ChordTimer
  /\ g67RoundSeq' = m.g67RoundSeq
  /\ g67SeqWaitingSecond' = m.g67SeqWaitingSecond
  /\ g67SeqFirstBtn' = m.g67SeqFirstBtn
  /\ g67SeqTimer' = m.g67SeqTimer
  /\ g67NextStageAtScore' = m.g67NextStageAtScore
  /\ goCalls' = m.goCalls
  /\ hiSaves' = m.hiSaves
  /\ party' = party

(***************************************************************************)
(* EEPROM helpers.  EEPROM.get / EEPROM.put of a uint16_t read and write   *)
(* two bytes, low byte first (AVR is little-endian).                       *)
(***************************************************************************)
hiAddr(id) == EEPROM_BASE_ADDR + id * 2

brtAddr == EEPROM_BASE_ADDR + GAME_COUNT * 2

EepromAddrs == 0 .. brtAddr

EepromGet16(e, addr) == e[addr] + 256 * e[addr + 1]

\* Mutant: the bytes are written high byte first.
EepromPut16_Swapped(e, addr, v) ==
  [e EXCEPT ![addr] = (v \div 256) % 256, ![addr + 1] = v % 256]

EepromPut16(e, addr, v) ==
  [e EXCEPT ![addr] = v % 256, ![addr + 1] = (v \div 256) % 256]

eepromLoadHi(e, id) ==
  LET v == EepromGet16(e, hiAddr(id))
  IN  IF v = 65535 THEN 0 ELSE v

eepromSaveHi(e, id, v) == EepromPut16(e, hiAddr(id), v)

eepromLoadBrightnessInternal(e) ==
  LET v == e[brtAddr]
  IN  IF v = 255 \/ v > BRT_INTERNAL_MIN THEN BRT_INTERNAL_MAX ELSE v

eepromSaveBrightnessInternal(e, v) == [e EXCEPT ![brtAddr] = v]

\* Mutant: the boot clear erases the store and leaves the cache.
RECURSIVE ClearHiFrom_KeepCache(_, _)
ClearHiFrom_KeepCache(m, i) ==
  IF i >= GAME_COUNT THEN m
  ELSE ClearHiFrom_KeepCache([m EXCEPT !.EEPROM = EepromPut16(@, hiAddr(i), 65535)],
                             i + 1)

RECURSIVE ClearHiFrom(_, _)
ClearHiFrom(m, i) ==
  IF i >= GAME_COUNT THEN m
  ELSE ClearHiFrom([m EXCEPT !.EEPROM = EepromPut16(@, hiAddr(i), 65535),
                             !.G.hi[i] = 0], i + 1)

eepromClearAllHiAndBrightness(m) ==
  LET m1 == ClearHiFrom(m, 0)
      m2 == [m1 EXCEPT !.gBrightnessInternal = BRT_INTERNAL_MAX]
  IN  [m2 EXCEPT !.EEPROM = eepromSaveBrightnessInternal(@, m2.gBrightnessInternal)]

\* Brightness shown as 3 = brightest .. 0 = dimmest
brtDisplayValue(m) == (3 - m.gBrightnessInternal) % 256

setBrightnessFromDisplay(m, dispVal) ==
  LET d == IF dispVal > 3 THEN 3 ELSE dispVal
  IN  [m EXCEPT !.gBrightnessInternal = (3 - d) % 256]

(***************************************************************************)
(* Input (down-only)                                                       *)
(***************************************************************************)
readButtons(m, raw) ==
  LET m0 == [m EXCEPT !.gBtn.hasDown = FALSE]
      num == raw % 64
      act == (raw \div 64) * 64
  IN  IF raw = 0 THEN m0
      ELSE IF act = BUTTON_PRESSED_IND
           THEN [m0 EXCEPT !.gBtn.hasDown = TRUE, !.gBtn.num = num]
           ELSE m0

(***************************************************************************)
(* Common gameplay helpers                                                 *)
(***************************************************************************)
\* Mutant: the step is taken without the clamp to WINDOW_MIN_MS.
shrinkWindowGeneric_NoClamp(m) ==
  [m EXCEPT !.G.windowMs = U16(m.G.windowMs - WINDOW_STEP_MS)]

shrinkWindowGeneric(m) ==
  IF m.G.windowMs <= WINDOW_MIN_MS THEN [m EXCEPT !.G.windowMs = WINDOW_MIN_MS]
  ELSE LET nw == m.G.windowMs
       IN  [m EXCEPT !.G.windowMs =
              IF nw > WINDOW_MIN_MS + WINDOW_STEP_MS
              THEN U16(nw - WINDOW_STEP_MS) ELSE WINDOW_MIN_MS]

shrinkWindow67(m) ==
  IF m.G.windowMs <= G67_MIN_MS THEN [m EXCEPT !.G.windowMs = G67_MIN_MS]
  ELSE LET nw == m.G.windowMs
       IN  [m EXCEPT !.G.windowMs =
              IF nw > G67_MIN_MS + G67_STEP_MS
              THEN U16(nw - G67_STEP_MS) ELSE G67_MIN_MS]

startReflexRound(m, now, expectedBtn, windowMs) ==
  [m EXCEPT !.G.expectedBtn = expectedBtn,
            !.G.roundStartMs = now,
            !.G.windowMs = windowMs]

(***************************************************************************)
(* Modes                                                                   *)
(***************************************************************************)
enterAttract(m, now) ==
  [m EXCEPT !.gMode = MODE_ATTRACT, !.gModeStartMs = now, !.G.score = 0]

\* Mutant: the new high score reaches the cache but not the store.
enterGameOver_NoStore(m, now) ==
  LET m1 == [m EXCEPT !.gMode = MODE_GAMEOVER, !.gModeStartMs = now,
                      !.goCalls = @ + 1]
  IN  IF m1.gGame # GAME_BRT /\ m1.G.score > m1.G.hi[m1.gGame]
      THEN [m1 EXCEPT !.G.hi[m1.gGame] = m1.G.score]
      ELSE m1

\* Mutant: the score is compared with >= instead of >.
enterGameOver_Ge(m, now) ==
  LET m1 == [m EXCEPT !.gMode = MODE_GAMEOVER, !.gModeStartMs = now,
                      !.goCalls = @ + 1]
  IN  IF m1.gGame # GAME_BRT /\ m1.G.score >= m1.G.hi[m1.gGame]
      THEN [m1 EXCEPT !.G.hi[m1.gGame] = m1.G.score,
                      !.EEPROM = eepromSaveHi(@, m1.gGame, m1.G.score),
                      !.hiSaves = @ + 1]
      ELSE m1

enterGameOver(m, now) ==
  LET m1 == [m EXCEPT !.gMode = MODE_GAMEOVER, !.gModeStartMs = now,
                      !.goCalls = @ + 1]
  IN  IF m1.gGame # GAME_BRT /\ m1.G.score > m1.G.hi[m1.gGame]
      THEN [m1 EXCEPT !.G.hi[m1.gGame] = m1.G.score,
                      !.EEPROM = eepromSaveHi(@, m1.gGame, m1.G.score),
                      !.hiSaves = @ + 1]
      ELSE m1

(***************************************************************************)
(* Games: CLSC / HARD / NOT.  r holds the values random() returns.         *)
(***************************************************************************)
\* Mutant: HARD expects the display position instead of the digit.
newRoundClassic_Pos(m, now, hard, r) ==
  LET d == IF hard THEN r.p ELSE r.d
      startW == IF hard THEN HARD_START_MS ELSE WINDOW_START_MS
      w == IF m.G.score = 0 THEN startW ELSE m.G.windowMs
  IN  startReflexRound(m, now, d, w)

newRoundClassic(m, now, hard, r) ==
  LET d == r.d
      startW == IF hard THEN HARD_START_MS ELSE WINDOW_START_MS
      w == IF m.G.score = 0 THEN startW ELSE m.G.windowMs
  IN  startReflexRound(m, now, d, w)

\* do { b = random(1, 4); } while (b == a): r.bs is the sequence of values
\* drawn, the loop leaves with the first one that differs from a.
RECURSIVE FirstOther(_, _, _)
FirstOther(bs, i, a) ==
  IF i >= Len(bs) \/ bs[i] # a THEN bs[i] ELSE FirstOther(bs, i + 1, a)

\* Mutant: the second value is not drawn again when it equals the first.
newRoundNot_NoRedraw(m, now, r) ==
  LET a0 == r.d
      b0 == r.bs[1]
      a == IF a0 > b0 THEN b0 ELSE a0
      b == IF a0 > b0 THEN a0 ELSE b0
      m1 == [m EXCEPT !.G.auxA = a, !.G.auxB = b]
      exp == IF 3 # a /\ 3 # b THEN 3
             ELSE IF 2 # a /\ 2 # b THEN 2
             ELSE 1
      w == IF m1.G.score = 0 THEN WINDOW_START_MS ELSE m1.G.windowMs
  IN  startReflexRound(m1, now, exp, w)

newRoundNot(m, now, r) ==
  LET a0 == r.d
      b0 == FirstOther(r.bs, 1, a0)
      a == IF a0 > b0 THEN b0 ELSE a0
      b == IF a0 > b0 THEN a0 ELSE b0
      m1 == [m EXCEPT !.G.auxA = a, !.G.auxB = b]
      exp == IF 3 # a /\ 3 # b THEN 3
             ELSE IF 2 # a /\ 2 # b THEN 2
             ELSE 1
      w == IF m1.G.score = 0 THEN WINDOW_START_MS ELSE m1.G.windowMs
  IN  startReflexRound(m1, now, exp, w)

(***************************************************************************)
(* Game: Ptrn                                                              *)
(***************************************************************************)
\* Mutant: the length and the index of the last session are kept.
ptrnReset_KeepLen(m, r) ==
  [m EXCEPT !.ptrnSeq = [i \in 0 .. (PTRN_MAX_SEQ - 1) |-> IF i = 0 THEN r.d ELSE 0]]

ptrnReset(m, r) ==
  [m EXCEPT !.ptrnLen = 1,
            !.ptrnIndex = 0,
            !.ptrnSeq = [i \in 0 .. (PTRN_MAX_SEQ - 1) |-> IF i = 0 THEN r.d ELSE 0]]

\* Mutant: the length is compared with <= instead of <.
ptrnExtend_Le(m, r) ==
  IF m.ptrnLen <= PTRN_MAX_SEQ
  THEN [m EXCEPT !.ptrnSeq = [i \in DOMAIN @ |-> IF i = m.ptrnLen THEN r.d ELSE @[i]],
                 !.ptrnLen = @ + 1]
  ELSE m

\* Mutant: the new element is put in front of the sequence.
ptrnExtend_Front(m, r) ==
  IF m.ptrnLen < PTRN_MAX_SEQ
  THEN [m EXCEPT !.ptrnSeq = [i \in DOMAIN @ |-> IF i = 0 THEN r.d ELSE @[i - 1]],
                 !.ptrnLen = @ + 1]
  ELSE m

ptrnExtend(m, r) ==
  IF m.ptrnLen < PTRN_MAX_SEQ
  THEN [m EXCEPT !.ptrnSeq[m.ptrnLen] = r.d, !.ptrnLen = @ + 1]
  ELSE m

ptrnBeginShow(m, now) ==
  [m EXCEPT !.ptrnPhase = PTRN_SHOWING,
            !.ptrnShowPos = 0,
            !.ptrnShowingDigit = TRUE,
            !.ptrnShowTimer = TimerStart(now, PTRN_SHOW_STEP_MS)]

ptrnBeginInput(m, now) ==
  [m EXCEPT !.ptrnPhase = PTRN_INPUT,
            !.ptrnIndex = 0,
            !.ptrnInputTimer = TimerStart(now, PTRN_TIMEOUT_MS)]

\* Mutant: the show phase does not move on to the next digit after a gap.
ptrnTick_SamePos(m, now) ==
  IF m.ptrnPhase = PTRN_SHOWING
  THEN IF m.ptrnShowPos >= m.ptrnLen THEN ptrnBeginInput(m, now)
       ELSE IF TimerDone(m.ptrnShowTimer, now)
            THEN IF m.ptrnShowingDigit
                 THEN [m EXCEPT !.ptrnShowingDigit = FALSE,
                                !.ptrnShowTimer = TimerStart(now, PTRN_GAP_MS)]
                 ELSE [m EXCEPT !.ptrnShowingDigit = TRUE,
                                !.ptrnShowTimer = TimerStart(now, PTRN_SHOW_STEP_MS)]
            ELSE m
  ELSE IF TimerDone(m.ptrnInputTimer, now) THEN enterGameOver(m, now)
       ELSE m

ptrnTick(m, now) ==
  IF m.ptrnPhase = PTRN_SHOWING
  THEN IF m.ptrnShowPos >= m.ptrnLen THEN ptrnBeginInput(m, now)
       ELSE IF TimerDone(m.ptrnShowTimer, now)
            THEN IF m.ptrnShowingDigit
                 THEN [m EXCEPT !.ptrnShowingDigit = FALSE,
                                !.ptrnShowTimer = TimerStart(now, PTRN_GAP_MS)]
                 ELSE [m EXCEPT !.ptrnShowPos = (@ + 1) % 256,
                                !.ptrnShowingDigit = TRUE,
                                !.ptrnShowTimer = TimerStart(now, PTRN_SHOW_STEP_MS)]
            ELSE m
  ELSE IF TimerDone(m.ptrnInputTimer, now) THEN enterGameOver(m, now)
       ELSE m

\* Mutant: every matched element counts, not only the last one.
ptrnHandleDown_ScoreEach(m, now, btn, r) ==
  IF m.ptrnPhase # PTRN_INPUT THEN m
  ELSE IF TimerDone(m.ptrnInputTimer, now) THEN enterGameOver(m, now)
  ELSE IF btn # m.ptrnSeq[m.ptrnIndex] THEN enterGameOver(m, now)
  ELSE LET m1 == [m EXCEPT !.ptrnIndex = (@ + 1) % 256,
                           !.ptrnInputTimer = TimerStart(now, PTRN_TIMEOUT_MS),
                           !.G.score = U16(@ + 1)]
       IN  IF m1.ptrnIndex >= m1.ptrnLen
           THEN ptrnBeginShow(ptrnExtend(m1, r), now)
           ELSE m1

\* Mutant: a matched element does not restart the input timer.
ptrnHandleDown_NoRestart(m, now, btn, r) ==
  IF m.ptrnPhase # PTRN_INPUT THEN m
  ELSE IF TimerDone(m.ptrnInputTimer, now) THEN enterGameOver(m, now)
  ELSE IF btn # m.ptrnSeq[m.ptrnIndex] THEN enterGameOver(m, now)
  ELSE LET m1 == [m EXCEPT !.ptrnIndex = (@ + 1) % 256]
       IN  IF m1.ptrnIndex >= m1.ptrnLen
           THEN ptrnBeginShow(ptrnExtend([m1 EXCEPT !.G.score = U16(@ + 1)], r), now)
           ELSE m1

ptrnHandleDown(m, now, btn, r) ==
  IF m.ptrnPhase # PTRN_INPUT THEN m
  ELSE IF TimerDone(m.ptrnInputTimer, now) THEN enterGameOver(m, now)
  ELSE IF btn # m.ptrnSeq[m.ptrnIndex] THEN enterGameOver(m, now)
  ELSE LET m1 == [m EXCEPT !.ptrnIndex = (@ + 1) % 256,
                           !.ptrnInputTimer = TimerStart(now, PTRN_TIMEOUT_MS)]
       IN  IF m1.ptrnIndex >= m1.ptrnLen
           THEN ptrnBeginShow(ptrnExtend([m1 EXCEPT !.G.score = U16(@ + 1)], r), now)
           ELSE m1

(***************************************************************************)
(* Game: 67                                                                *)
(***************************************************************************)
btnForSide(side) == IF side = 0 THEN 1 ELSE 3

oppSide(side) == IF side = 0 THEN 3 ELSE 0

\* Mutant: the opposite of a side button is the middle button.
oppBtn_Middle(b) == 2

oppBtn(b) == IF b = 1 THEN 3 ELSE IF b = 3 THEN 1 ELSE 2

\* r is the value of random(0, 100)
pickTrickStageWeighted(r) ==
  IF r < 25 THEN G67_TRICK_MIX
  ELSE IF r < 43 THEN G67_FLASH_NOT
  ELSE IF r < 57 THEN G67_NOT
  ELSE IF r < 68 THEN G67_CHORD
  ELSE IF r < 78 THEN G67_SEQ_67
  ELSE IF r < 88 THEN G67_SEQ_76
  ELSE IF r < 94 THEN G67_GHOST
  ELSE IF r < 98 THEN G67_BLINK
  ELSE G67_SHORT_WIN

g67ScheduleNextStageChange(m, r) ==
  LET step == IF r.step = 0 THEN 6 ELSE 7
  IN  [m EXCEPT !.g67NextStageAtScore = U16(m.G.score + step)]

\* Mutant: after the intro the stage is rolled at every round.
g67UpdateStageIfNeeded_EveryRound(m, r) ==
  IF m.G.score < G67_INTRO_POINTS THEN [m EXCEPT !.g67Stage = G67_INTRO]
  ELSE g67ScheduleNextStageChange(
         [m EXCEPT !.g67Stage = pickTrickStageWeighted(r.stageR)], r)

g67UpdateStageIfNeeded(m, r) ==
  IF m.G.score < G67_INTRO_POINTS THEN [m EXCEPT !.g67Stage = G67_INTRO]
  ELSE IF m.g67Stage = G67_INTRO
       THEN g67ScheduleNextStageChange(
              [m EXCEPT !.g67Stage = pickTrickStageWeighted(r.stageR)], r)
  ELSE IF m.G.score >= m.g67NextStageAtScore
       THEN g67ScheduleNextStageChange(
              [m EXCEPT !.g67Stage = pickTrickStageWeighted(r.stageR)], r)
  ELSE m

\* Mutant: a chord round keeps the progress of the chord before it.
g67ShowChord_KeepProgress(m, now) ==
  [m EXCEPT !.g67RoundChord = TRUE,
            !.g67RoundSeq = FALSE,
            !.g67ChordTimer = TimerStart(now, G67_CHORD_WIN_MS)]

g67ShowChord(m, now) ==
  [m EXCEPT !.g67RoundChord = TRUE,
            !.g67RoundSeq = FALSE,
            !.g67ChordWaitingSecond = FALSE,
            !.g67ChordFirstBtn = 0,
            !.g67ChordTimer = TimerStart(now, G67_CHORD_WIN_MS)]

g67ShowSeq(m, now, firstDigit, secondDigit) ==
  [m EXCEPT !.g67RoundSeq = TRUE,
            !.g67RoundChord = FALSE,
            !.g67SeqWaitingSecond = FALSE,
            !.g67SeqFirstBtn = IF firstDigit = 6 THEN 1 ELSE 3,
            !.G.auxA = IF secondDigit = 6 THEN 1 ELSE 3,
            !.g67SeqTimer = TimerStart(now, G67_SEQ_WIN_MS)]

\* (uint16_t)(w * 0.62f).  0.62f is 0.62 + 4.8e-9 and the fraction of
\* w * 0.62 is a multiple of 0.02, so for every 16-bit w the truncated float
\* product is the integer part of w * 62 / 100.
ShortWindow(w) == (w * 62) \div 100

g67BeginRound(m, now, r) ==
  LET m1 == g67UpdateStageIfNeeded(m, r)
      showSix == (r.six = 0)
      m2 == [m1 EXCEPT !.g67RoundChord = FALSE,
                       !.g67RoundSeq = FALSE,
                       !.g67NotFlag = FALSE,
                       !.g67Digit = IF showSix THEN 6 ELSE 7]
      baseSide0 == IF showSix THEN 0 ELSE 3
      stage == m2.g67Stage
      w0 == IF stage = G67_INTRO
            THEN (IF m2.G.score = 0 THEN G67_START_INTRO_MS ELSE m2.G.windowMs)
            ELSE (IF m2.G.score = G67_INTRO_POINTS
                  THEN G67_START_TRICK_MS ELSE m2.G.windowMs)
  IN  IF stage = G67_INTRO
      THEN startReflexRound([m2 EXCEPT !.g67Side = baseSide0], now,
                            btnForSide(baseSide0), w0)
      ELSE
        LET trickMix == stage = G67_TRICK_MIX
            mr == r.mixR
            notMap == \/ stage \in {G67_NOT, G67_FLASH_NOT}
                      \/ trickMix /\ mr < 44
            chord == \/ stage = G67_CHORD
                     \/ trickMix /\ mr >= 44 /\ mr < 58
            mixSeq == trickMix /\ mr >= 58 /\ mr < 78
            seq == stage \in {G67_SEQ_67, G67_SEQ_76} \/ mixSeq
            seq76 == stage = G67_SEQ_76 \/ (mixSeq /\ r.mixSeq76 = 0)
            shortWin == stage = G67_SHORT_WIN \/ (trickMix /\ mr >= 90)
            swap == stage = G67_SWAP \/ (trickMix /\ r.mixSwap = 0)
            w == IF shortWin THEN ShortWindow(w0) ELSE w0
        IN  IF chord THEN startReflexRound(g67ShowChord(m2, now), now, 0, w)
            ELSE IF seq
            THEN LET firstD == IF seq76 # swap THEN 7 ELSE 6
                     secondD == IF seq76 # swap THEN 6 ELSE 7
                 IN  startReflexRound(g67ShowSeq(m2, now, firstD, secondD), now, 0, w)
            ELSE LET baseSide == IF swap THEN oppSide(baseSide0) ELSE baseSide0
                     baseBtn == IF notMap THEN oppBtn(btnForSide(baseSide))
                                ELSE btnForSide(baseSide)
                 IN  startReflexRound(
                       [m2 EXCEPT !.g67Side = baseSide, !.g67NotFlag = notMap],
                       now, baseBtn, w)

\* g67Tick only sequences display output (teach LED, NOT cue, flash, blink).
g67Tick(m, now) == m

\* Mutant: the second press of a pair is not checked against the pair timer.
g67HandleDown_NoSeqTimer(m, now, btn, r) ==
  IF m.g67RoundChord
  THEN IF ~m.g67ChordWaitingSecond
       THEN [m EXCEPT !.g67ChordWaitingSecond = TRUE,
                      !.g67ChordFirstBtn = btn,
                      !.g67ChordTimer = TimerStart(now, G67_CHORD_WIN_MS)]
       ELSE IF TimerDone(m.g67ChordTimer, now) THEN enterGameOver(m, now)
       ELSE IF btn = m.g67ChordFirstBtn THEN enterGameOver(m, now)
       ELSE IF ~(\/ m.g67ChordFirstBtn = 1 /\ btn = 3
                 \/ m.g67ChordFirstBtn = 3 /\ btn = 1)
            THEN enterGameOver(m, now)
       ELSE g67BeginRound(shrinkWindow67([m EXCEPT !.G.score = U16(@ + 1)]), now, r)
  ELSE IF m.g67RoundSeq
  THEN IF ~m.g67SeqWaitingSecond
       THEN IF btn # m.g67SeqFirstBtn THEN enterGameOver(m, now)
            ELSE [m EXCEPT !.g67SeqWaitingSecond = TRUE,
                           !.g67SeqTimer = TimerStart(now, G67_SEQ_WIN_MS)]
       ELSE IF btn # m.G.auxA THEN enterGameOver(m, now)
       ELSE g67BeginRound(shrinkWindow67([m EXCEPT !.G.score = U16(@ + 1)]), now, r)
  ELSE IF btn # m.G.expectedBtn THEN enterGameOver(m, now)
  ELSE g67BeginRound(shrinkWindow67([m EXCEPT !.G.score = U16(@ + 1)]), now, r)

\* Mutant: the first press of a pair is taken whatever the button.
g67HandleDown_AnyFirst(m, now, btn, r) ==
  IF m.g67RoundChord
  THEN IF ~m.g67ChordWaitingSecond
       THEN [m EXCEPT !.g67ChordWaitingSecond = TRUE,
                      !.g67ChordFirstBtn = btn,
                      !.g67ChordTimer = TimerStart(now, G67_CHORD_WIN_MS)]
       ELSE IF TimerDone(m.g67ChordTimer, now) THEN enterGameOver(m, now)
       ELSE IF btn = m.g67ChordFirstBtn THEN enterGameOver(m, now)
       ELSE IF ~(\/ m.g67ChordFirstBtn = 1 /\ btn = 3
                 \/ m.g67ChordFirstBtn = 3 /\ btn = 1)
            THEN enterGameOver(m, now)
       ELSE g67BeginRound(shrinkWindow67([m EXCEPT !.G.score = U16(@ + 1)]), now, r)
  ELSE IF m.g67RoundSeq
  THEN IF ~m.g67SeqWaitingSecond
       THEN [m EXCEPT !.g67SeqWaitingSecond = TRUE,
                      !.g67SeqTimer = TimerStart(now, G67_SEQ_WIN_MS)]
       ELSE IF TimerDone(m.g67SeqTimer, now) THEN enterGameOver(m, now)
       ELSE IF btn # m.G.auxA THEN enterGameOver(m, now)
       ELSE g67BeginRound(shrinkWindow67([m EXCEPT !.G.score = U16(@ + 1)]), now, r)
  ELSE IF btn # m.G.expectedBtn THEN enterGameOver(m, now)
  ELSE g67BeginRound(shrinkWindow67([m EXCEPT !.G.score = U16(@ + 1)]), now, r)

\* Mutant: the pair timer is not started again at the first press.
g67HandleDown_NoRestart(m, now, btn, r) ==
  IF m.g67RoundChord
  THEN IF ~m.g67ChordWaitingSecond
       THEN [m EXCEPT !.g67ChordWaitingSecond = TRUE,
                      !.g67ChordFirstBtn = btn,
                      !.g67ChordTimer = TimerStart(now, G67_CHORD_WIN_MS)]
       ELSE IF TimerDone(m.g67ChordTimer, now) THEN enterGameOver(m, now)
       ELSE IF btn = m.g67ChordFirstBtn THEN enterGameOver(m, now)
       ELSE IF ~(\/ m.g67ChordFirstBtn = 1 /\ btn = 3
                 \/ m.g67ChordFirstBtn = 3 /\ btn = 1)
            THEN enterGameOver(m, now)
       ELSE g67BeginRound(shrinkWindow67([m EXCEPT !.G.score = U16(@ + 1)]), now, r)
  ELSE IF m.g67RoundSeq
  THEN IF ~m.g67SeqWaitingSecond
       THEN IF btn # m.g67SeqFirstBtn THEN enterGameOver(m, now)
            ELSE [m EXCEPT !.g67SeqWaitingSecond = TRUE]
       ELSE IF TimerDone(m.g67SeqTimer, now) THEN enterGameOver(m, now)
       ELSE IF btn # m.G.auxA THEN enterGameOver(m, now)
       ELSE g67BeginRound(shrinkWindow67([m EXCEPT !.G.score = U16(@ + 1)]), now, r)
  ELSE IF btn # m.G.expectedBtn THEN enterGameOver(m, now)
  ELSE g67BeginRound(shrinkWindow67([m EXCEPT !.G.score = U16(@ + 1)]), now, r)

\* Mutant: a chord is any two different buttons.
g67HandleDown_AnyTwo(m, now, btn, r) ==
  IF m.g67RoundChord
  THEN IF ~m.g67ChordWaitingSecond
       THEN [m EXCEPT !.g67ChordWaitingSecond = TRUE,
                      !.g67ChordFirstBtn = btn,
                      !.g67ChordTimer = TimerStart(now, G67_CHORD_WIN_MS)]
       ELSE IF TimerDone(m.g67ChordTimer, now) THEN enterGameOver(m, now)
       ELSE IF btn = m.g67ChordFirstBtn THEN enterGameOver(m, now)
       ELSE g67BeginRound(shrinkWindow67([m EXCEPT !.G.score = U16(@ + 1)]), now, r)
  ELSE IF m.g67RoundSeq
  THEN IF ~m.g67SeqWaitingSecond
       THEN IF btn # m.g67SeqFirstBtn THEN enterGameOver(m, now)
            ELSE [m EXCEPT !.g67SeqWaitingSecond = TRUE,
                           !.g67SeqTimer = TimerStart(now, G67_SEQ_WIN_MS)]
       ELSE IF TimerDone(m.g67SeqTimer, now) THEN enterGameOver(m, now)
       ELSE IF btn # m.G.auxA THEN enterGameOver(m, now)
       ELSE g67BeginRound(shrinkWindow67([m EXCEPT !.G.score = U16(@ + 1)]), now, r)
  ELSE IF btn # m.G.expectedBtn THEN enterGameOver(m, now)
  ELSE g67BeginRound(shrinkWindow67([m EXCEPT !.G.score = U16(@ + 1)]), now, r)

g67HandleDown(m, now, btn, r) ==
  IF m.g67RoundChord
  THEN IF ~m.g67ChordWaitingSecond
       THEN [m EXCEPT !.g67ChordWaitingSecond = TRUE,
                      !.g67ChordFirstBtn = btn,
                      !.g67ChordTimer = TimerStart(now, G67_CHORD_WIN_MS)]
       ELSE IF TimerDone(m.g67ChordTimer, now) THEN enterGameOver(m, now)
       ELSE IF btn = m.g67ChordFirstBtn THEN enterGameOver(m, now)
       ELSE IF ~(\/ m.g67ChordFirstBtn = 1 /\ btn = 3
                 \/ m.g67ChordFirstBtn = 3 /\ btn = 1)
            THEN enterGameOver(m, now)
       ELSE g67BeginRound(shrinkWindow67([m EXCEPT !.G.score = U16(@ + 1)]), now, r)
  ELSE IF m.g67RoundSeq
  THEN IF ~m.g67SeqWaitingSecond
       THEN IF btn # m.g67SeqFirstBtn THEN enterGameOver(m, now)
            ELSE [m EXCEPT !.g67SeqWaitingSecond = TRUE,
                           !.g67SeqTimer = TimerStart(now, G67_SEQ_WIN_MS)]
       ELSE IF TimerDone(m.g67SeqTimer, now) THEN enterGameOver(m, now)
       ELSE IF btn # m.G.auxA THEN enterGameOver(m, now)
       ELSE g67BeginRound(shrinkWindow67([m EXCEPT !.G.score = U16(@ + 1)]), now, r)
  ELSE IF btn # m.G.expectedBtn THEN enterGameOver(m, now)
  ELSE g67BeginRound(shrinkWindow67([m EXCEPT !.G.score = U16(@ + 1)]), now, r)

(***************************************************************************)
(* Playing / Attract / Gameover                                            *)
(***************************************************************************)
enterPlaying(m, now, r) ==
  LET m1 == [m EXCEPT !.gMode = MODE_PLAYING,
                      !.gModeStartMs = now,
                      !.G.score = 0,
                      !.G.expectedBtn = 0,
                      !.G.auxA = 0,
                      !.G.auxB = 0,
                      !.goCalls = 0,
                      !.hiSaves = 0]
  IN  IF m1.gGame = GAME_67
      THEN g67BeginRound([m1 EXCEPT !.G.windowMs = G67_START_INTRO_MS,
                                    !.g67Stage = G67_INTRO,
                                    !.g67NextStageAtScore = 0], now, r)
      ELSE IF m1.gGame = GAME_PTRN
      THEN ptrnBeginShow(ptrnReset([m1 EXCEPT !.G.windowMs = WINDOW_START_MS], r), now)
      ELSE IF m1.gGame = GAME_NOT
      THEN newRoundNot([m1 EXCEPT !.G.windowMs = WINDOW_START_MS], now, r)
      ELSE IF m1.gGame = GAME_HARD
      THEN newRoundClassic([m1 EXCEPT !.G.windowMs = WINDOW_START_MS], now, TRUE, r)
      ELSE IF m1.gGame = GAME_CLSC
      THEN newRoundClassic([m1 EXCEPT !.G.windowMs = WINDOW_START_MS], now, FALSE, r)
      ELSE enterAttract(m1, now)

\* Mutant: the timeout leads back to Attract.
playingTick_ToAttract(m, now) ==
  IF m.gGame = GAME_PTRN THEN ptrnTick(m, now)
  ELSE LET m1 == IF m.gGame = GAME_67 THEN g67Tick(m, now) ELSE m
       IN  IF Ge32(Sub32(now, m1.G.roundStartMs), m1.G.windowMs)
           THEN enterAttract(m1, now)
           ELSE m1

\* Mutant: the window is compared with > instead of >=.
playingTick_Gt(m, now) ==
  IF m.gGame = GAME_PTRN THEN ptrnTick(m, now)
  ELSE LET m1 == IF m.gGame = GAME_67 THEN g67Tick(m, now) ELSE m
       IN  IF Ge32(Sub32(now, m1.G.roundStartMs), m1.G.windowMs + 1)
           THEN enterGameOver(m1, now)
           ELSE m1

playingTick(m, now) ==
  IF m.gGame = GAME_PTRN THEN ptrnTick(m, now)
  ELSE LET m1 == IF m.gGame = GAME_67 THEN g67Tick(m, now) ELSE m
       IN  IF Ge32(Sub32(now, m1.G.roundStartMs), m1.G.windowMs)
           THEN enterGameOver(m1, now)
           ELSE m1

playingHandleDown(m, now, btn, r) ==
  IF m.gGame = GAME_PTRN THEN ptrnHandleDown(m, now, btn, r)
  ELSE IF m.gGame = GAME_67 THEN g67HandleDown(m, now, btn, r)
  ELSE IF btn # m.G.expectedBtn THEN enterGameOver(m, now)
  ELSE LET m1 == shrinkWindowGeneric([m EXCEPT !.G.score = U16(@ + 1)])
       IN  IF m1.gGame = GAME_NOT THEN newRoundNot(m1, now, r)
           ELSE IF m1.gGame = GAME_HARD THEN newRoundClassic(m1, now, TRUE, r)
           ELSE newRoundClassic(m1, now, FALSE, r)

\* attractTick only drives the display (label / high score pulse).
attractTick(m, now) == m

\* Mutant: button 3 on the last screen leaves the range of the games.
attractHandleDown_NoWrap(m, now, btn, r) ==
  LET prev == IF m.gGame = 0 THEN GAME_COUNT - 1 ELSE m.gGame - 1
      next == (m.gGame + 1) % (GAME_COUNT + 1)
  IN  IF m.gGame = GAME_BRT
      THEN IF btn = 2
           THEN LET disp == (brtDisplayValue(m) + 1) % 4
                    m1 == setBrightnessFromDisplay(m, disp)
                IN  [m1 EXCEPT !.EEPROM =
                       eepromSaveBrightnessInternal(@, m1.gBrightnessInternal)]
           ELSE IF btn = 1 THEN [m EXCEPT !.gGame = prev]
           ELSE IF btn = 3 THEN [m EXCEPT !.gGame = next]
           ELSE m
      ELSE IF btn = 1 THEN [m EXCEPT !.gGame = prev]
      ELSE IF btn = 3 THEN [m EXCEPT !.gGame = next]
      ELSE IF btn = 2 THEN enterPlaying(m, now, r)
      ELSE m

\* Mutant: a selection press also resets the window.
attractHandleDown_SelWindow(m, now, btn, r) ==
  LET prev == IF m.gGame = 0 THEN GAME_COUNT - 1 ELSE m.gGame - 1
      next == (m.gGame + 1) % GAME_COUNT
  IN  IF m.gGame = GAME_BRT
      THEN IF btn = 2
           THEN LET disp == (brtDisplayValue(m) + 1) % 4
                    m1 == setBrightnessFromDisplay(m, disp)
                IN  [m1 EXCEPT !.EEPROM =
                       eepromSaveBrightnessInternal(@, m1.gBrightnessInternal)]
           ELSE IF btn = 1 THEN [m EXCEPT !.gGame = prev, !.G.windowMs = WINDOW_START_MS]
           ELSE IF btn = 3 THEN [m EXCEPT !.gGame = next, !.G.windowMs = WINDOW_START_MS]
           ELSE m
      ELSE IF btn = 1 THEN [m EXCEPT !.gGame = prev, !.G.windowMs = WINDOW_START_MS]
      ELSE IF btn = 3 THEN [m EXCEPT !.gGame = next, !.G.windowMs = WINDOW_START_MS]
      ELSE IF btn = 2 THEN enterPlaying(m, now, r)
      ELSE m

\* Mutant: the brightness screen is handled like the screen of a game.
attractHandleDown_NoBrtScreen(m, now, btn, r) ==
  LET prev == IF m.gGame = 0 THEN GAME_COUNT - 1 ELSE m.gGame - 1
      next == (m.gGame + 1) % GAME_COUNT
  IN  IF btn = 1 THEN [m EXCEPT !.gGame = prev]
      ELSE IF btn = 3 THEN [m EXCEPT !.gGame = next]
      ELSE IF btn = 2 THEN enterPlaying(m, now, r)
      ELSE m

\* The handler reads millis() again for enterPlaying; it returns the value
\* loop() read at the start of the iteration.
attractHandleDown(m, now, btn, r) ==
  LET prev == IF m.gGame = 0 THEN GAME_COUNT - 1 ELSE m.gGame - 1
      next == (m.gGame + 1) % GAME_COUNT
  IN  IF m.gGame = GAME_BRT
      THEN IF btn = 2
           THEN LET disp == (brtDisplayValue(m) + 1) % 4
                    m1 == setBrightnessFromDisplay(m, disp)
                IN  [m1 EXCEPT !.EEPROM =
                       eepromSaveBrightnessInternal(@, m1.gBrightnessInternal)]
           ELSE IF btn = 1 THEN [m EXCEPT !.gGame = prev]
           ELSE IF btn = 3 THEN [m EXCEPT !.gGame = next]
           ELSE m
      ELSE IF btn = 1 THEN [m EXCEPT !.gGame = prev]
      ELSE IF btn = 3 THEN [m EXCEPT !.gGame = next]
      ELSE IF btn = 2 THEN enterPlaying(m, now, r)
      ELSE m

\* Mutant: the screen is left only after more than 4000 ms.
gameOverTick_Late(m, now) ==
  LET e == Sub32(now, m.gModeStartMs)
  IN  IF Lt32(e, GAMEOVER_SCORE_MS) THEN m
      ELSE IF Lt32(e, GAMEOVER_SCORE_MS + GAMEOVER_HI_MS + 1) THEN m
      ELSE enterAttract(m, now)

gameOverTick(m, now) ==
  LET e == Sub32(now, m.gModeStartMs)
  IN  IF Lt32(e, GAMEOVER_SCORE_MS) THEN m
      ELSE IF Lt32(e, GAMEOVER_SCORE_MS + GAMEOVER_HI_MS) THEN m
      ELSE enterAttract(m, now)

(***************************************************************************)
(* Setup / Loop                                                            *)
(***************************************************************************)
RECURSIVE LoadHiFrom(_, _)
LoadHiFrom(m, i) ==
  IF i >= GAME_COUNT THEN m
  ELSE LoadHiFrom([m EXCEPT !.G.hi[i] = eepromLoadHi(m.EEPROM, i)], i + 1)

\* The boot clear runs when the button read after the first delay is button 1.
BootClear(raw) == raw # 0 /\ raw % 64 = 1

\* setup(); raw is the value of MFS.getButton(), now the value of millis() at
\* the end.
setup(m, raw, now) ==
  LET m1 == LoadHiFrom(m, 0)
      m2 == [m1 EXCEPT !.gBrightnessInternal = eepromLoadBrightnessInternal(m1.EEPROM)]
      m3 == IF BootClear(raw) THEN eepromClearAllHiAndBrightness(m2) ELSE m2
  IN  enterAttract(m3, now)

(***************************************************************************)
(* Party Edition sketch.  Every function is an operator from a machine     *)
(* state p (a record with one field per global) to the machine state after *)
(* the call.  six7Flash, six7Blink, six7BlinkCount, six7FlashTimer,        *)
(* attractPulse, attractShowHi, scoreBlinkTimer and scoreBlinkOn only      *)
(* sequence display output and are not modelled; six7RoundKind is never    *)
(* used.                                                                   *)
(***************************************************************************)
eepromLoadHiParty(e, id) ==
  LET v == EepromGet16(e, hiAddrParty(id))
  IN  IF v = 65535 THEN 0 ELSE v

eepromSaveHiParty(e, id, v) == EepromPut16(e, hiAddrParty(id), v)

RECURSIVE ClearHiFromParty(_, _)
ClearHiFromParty(p, i) ==
  IF i >= GAME_COUNT_PARTY THEN p
  ELSE ClearHiFromParty([p EXCEPT !.EEPROM = EepromPut16(@, hiAddrParty(i), 65535),
                                  !.G.hi[i] = 0], i + 1)

eepromClearAllHi(p) == ClearHiFromParty(p, 0)

readButtonsParty(p, raw) ==
  LET p0 == [p EXCEPT !.gBtn.has = FALSE]
      num == raw % 64
      act == (raw \div 64) * 64
  IN  IF raw = 0 THEN p0
      ELSE [p0 EXCEPT !.gBtn.num = num,
                      !.gBtn.act = IF act = BUTTON_PRESSED_IND THEN BTN_DOWN ELSE BTN_UP,
                      !.gBtn.has = TRUE]

enterAttractParty(p, now) ==
  [p EXCEPT !.gMode = MODE_ATTRACT,
            !.gModeStartMs = now,
            !.G.score = 0,
            !.G.windowMs = WINDOW_START_MS,
            !.G.roundStartMs = now]

enterGameOverParty(p, now) ==
  LET p1 == [p EXCEPT !.gMode = MODE_GAMEOVER, !.gModeStartMs = now]
  IN  IF p1.G.score > p1.G.hi[p1.gGame]
      THEN [p1 EXCEPT !.G.hi[p1.gGame] = p1.G.score,
                      !.EEPROM = eepromSaveHiParty(@, p1.gGame, p1.G.score)]
      ELSE p1

startReflexRoundParty(p, now, expectedBtn, windowMs) ==
  [p EXCEPT !.G.expectedBtn = expectedBtn,
            !.G.roundStartMs = now,
            !.G.windowMs = windowMs]

shrinkWindow(p) ==
  IF p.G.windowMs <= WINDOW_MIN_MS THEN [p EXCEPT !.G.windowMs = WINDOW_MIN_MS]
  ELSE LET nw == p.G.windowMs
       IN  [p EXCEPT !.G.windowMs =
              IF nw > WINDOW_MIN_MS + WINDOW_STEP_MS
              THEN U16(nw - WINDOW_STEP_MS) ELSE WINDOW_MIN_MS]

newRoundClassicParty(p, now, hard, r) ==
  LET d == r.d
      startW == IF hard THEN HARD_START_MS ELSE WINDOW_START_MS
  IN  IF p.G.score = 0 THEN startReflexRoundParty(p, now, d, startW)
      ELSE startReflexRoundParty(p, now, d, p.G.windowMs)

newRoundNotParty(p, now, r) ==
  LET a0 == r.d
      b0 == FirstOther(r.bs, 1, a0)
      a == IF a0 > b0 THEN b0 ELSE a0
      b == IF a0 > b0 THEN a0 ELSE b0
      p1 == [p EXCEPT !.G.forbidA = a, !.G.forbidB = b]
      exp == IF 3 # a /\ 3 # b THEN 3
             ELSE IF 2 # a /\ 2 # b THEN 2
             ELSE 1
  IN  startReflexRoundParty(p1, now, exp,
                            IF p1.G.score = 0 THEN WINDOW_START_MS ELSE p1.G.windowMs)

cordReset(p, r) ==
  [p EXCEPT !.cordLen = 1,
            !.cordIndex = 0,
            !.cordSeq = [i \in 0 .. (CORD_MAX_SEQ - 1) |-> IF i = 0 THEN r.d ELSE 0]]

cordExtend(p, r) ==
  IF p.cordLen < CORD_MAX_SEQ
  THEN [p EXCEPT !.cordSeq[p.cordLen] = r.d, !.cordLen = @ + 1]
  ELSE p

cordBeginShow(p, now) ==
  [p EXCEPT !.cordPhase = CORD_SHOWING,
            !.cordShowPos = 0,
            !.cordShowingDigit = TRUE,
            !.cordShowTimer = TimerStart(now, CORD_SHOW_STEP_MS)]

cordBeginInput(p, now) ==
  [p EXCEPT !.cordPhase = CORD_INPUT,
            !.cordIndex = 0,
            !.cordInputTimer = TimerStart(now, CORD_TIMEOUT_MS)]

cordTick(p, now) ==
  IF p.cordPhase = CORD_SHOWING
  THEN IF p.cordShowPos >= p.cordLen THEN cordBeginInput(p, now)
       ELSE IF TimerDoneParty(p.cordShowTimer, now)
            THEN IF p.cordShowingDigit
                 THEN [p EXCEPT !.cordShowingDigit = FALSE,
                                !.cordShowTimer = TimerStart(now, CORD_GAP_MS)]
                 ELSE [p EXCEPT !.cordShowPos = (@ + 1) % 256,
                                !.cordShowingDigit = TRUE,
                                !.cordShowTimer = TimerStart(now, CORD_SHOW_STEP_MS)]
            ELSE p
  ELSE IF TimerDoneParty(p.cordInputTimer, now) THEN enterGameOverParty(p, now)
       ELSE p

\* e is gBtn; the caller has checked e.has and e.act.
cordHandleButton(p, now, e, r) ==
  IF p.cordPhase # CORD_INPUT THEN p
  ELSE IF ~e.has \/ e.act # BTN_DOWN THEN p
  ELSE IF e.num # p.cordSeq[p.cordIndex] THEN enterGameOverParty(p, now)
  ELSE LET p1 == [p EXCEPT !.cordIndex = (@ + 1) % 256,
                           !.cordInputTimer = TimerStart(now, CORD_TIMEOUT_MS)]
       IN  IF p1.cordIndex >= p1.cordLen
           THEN cordBeginShow(cordExtend([p1 EXCEPT !.G.score = U16(@ + 1)], r), now)
           ELSE p1

(***************************************************************************)
(* Party Edition, game 6OR7.  r holds the values random() returns:         *)
(* r.stage for random(1, S7_COUNT), r.six for the digit, r.mixR for the    *)
(* TRICK_MIX roll, r.mid for random(0, 3), r.left for the side of a        *)
(* "not 6.5" round.                                                        *)
(***************************************************************************)
six7PickNewStage(p, r) ==
  IF p.G.score \div 5 = 0 THEN [p EXCEPT !.six7Stage = S7_NORMAL]
  ELSE [p EXCEPT !.six7Stage = r.stage]

\* Mutant: the stage is picked at every round.
six7UpdateStageIfNeeded_EveryRound(p, r) ==
  six7PickNewStage([p EXCEPT !.six7StageBlock = (p.G.score \div 5) % 256], r)

six7UpdateStageIfNeeded(p, r) ==
  LET block == (p.G.score \div 5) % 256
  IN  IF block # p.six7StageBlock
      THEN six7PickNewStage([p EXCEPT !.six7StageBlock = block], r)
      ELSE p

six7ShowChord(p, now, swap) ==
  [p EXCEPT !.six7ChordWaitingSecond = FALSE,
            !.six7ChordFirstBtn = 0,
            !.six7ChordTimer = TimerStart(now, SIX7_CHORD_WINDOW_MS)]

six7ShowSeq(p, now, firstDigit) ==
  [p EXCEPT !.six7SeqWaitingSecond = FALSE,
            !.six7SeqFirstBtn = 0,
            !.six7SeqTimer = TimerStart(now, SIX7_SEQ_WINDOW_MS)]

six7BtnForSide(side) == IF side = 0 THEN 1 ELSE 3

six7OppBtn(b) == IF b = 1 THEN 3 ELSE IF b = 3 THEN 1 ELSE 2

\* (uint16_t)(startW * 0.60f).  0.60f is 0.6 + 2.4e-8 and the fraction of
\* startW * 0.6 is a multiple of 0.2, so for every 16-bit startW the
\* truncated float product is the integer part of startW * 6 / 10.
ShortWindowParty(w) == (w * 6) \div 10

six7BeginRound(p, now, r) ==
  LET p1 == six7UpdateStageIfNeeded(p, r)
      showSix == (r.six = 0)
      p2 == [p1 EXCEPT !.six7Not = FALSE,
                       !.six7ChordWaitingSecond = FALSE,
                       !.six7SeqWaitingSecond = FALSE,
                       !.six7ShowDigit = IF showSix THEN 6 ELSE 7]
      baseSide0 == IF showSix THEN 0 ELSE 3
      stage == p2.six7Stage
      partyMix == stage = S7_TRICK_MIX
      mr == r.mixR
      swapSides == \/ stage \in {S7_SWAP, S7_CHORD_SWAP}
                   \/ partyMix /\ mr < 15
      invertMap == \/ stage \in {S7_NOT, S7_FLASH_NOT, S7_MID65_NOT}
                   \/ partyMix /\ mr >= 15 /\ mr < 30
      canMid65 == \/ stage \in {S7_MID65, S7_MID65_NOT}
                  \/ partyMix /\ mr >= 45 /\ mr < 60
      doChord == \/ stage \in {S7_CHORD, S7_CHORD_SWAP}
                 \/ partyMix /\ mr >= 72 /\ mr < 84
      doSeq == \/ stage \in {S7_SEQ_67, S7_SEQ_76}
               \/ partyMix /\ mr >= 84 /\ mr < 95
      seq76 == stage = S7_SEQ_76
      shortWin == stage = S7_SHORT_WINDOW
      startW0 == IF p2.G.score = 0 THEN WINDOW_START_MS ELSE p2.G.windowMs
      startW == IF shortWin THEN ShortWindowParty(startW0) ELSE startW0
  IN  IF canMid65 /\ r.mid = 0
      THEN startReflexRoundParty(p2, now,
             IF ~invertMap THEN 2 ELSE (IF r.left = 0 THEN 1 ELSE 3), startW)
      ELSE IF doChord
      THEN startReflexRoundParty(six7ShowChord(p2, now, swapSides), now, 0, startW)
      ELSE IF doSeq
      THEN LET firstD == IF seq76 # swapSides THEN 7 ELSE 6
               secondD == IF seq76 # swapSides THEN 6 ELSE 7
               p3 == six7ShowSeq(p2, now, firstD)
           IN  startReflexRoundParty(
                 [p3 EXCEPT !.six7SeqFirstBtn = IF firstD = 6 THEN 1 ELSE 3,
                            !.G.forbidA = IF secondD = 6 THEN 1 ELSE 3],
                 now, 0, startW)
      ELSE LET baseSide == IF swapSides THEN (IF baseSide0 = 0 THEN 3 ELSE 0)
                           ELSE baseSide0
               baseBtn == IF invertMap THEN six7OppBtn(six7BtnForSide(baseSide))
                          ELSE six7BtnForSide(baseSide)
           IN  startReflexRoundParty(
                 [p2 EXCEPT !.six7DisplaySide = baseSide, !.six7Not = invertMap],
                 now, baseBtn, startW)

\* six7Tick only sequences display output (flash blanking, blink).
six7Tick(p, now) == p

\* now - six7SeqTimer.t0 <= six7SeqTimer.dur + 5
SeqTimerRunning(p, now) ==
  p.six7SeqTimer.dur # 0
    /\ Lt32(Sub32(now, p.six7SeqTimer.t0), p.six7SeqTimer.dur + 6)

six7HandleButton(p, now, e, r) ==
  IF ~e.has \/ e.act # BTN_DOWN THEN p
  ELSE IF /\ p.six7Stage \in {S7_CHORD, S7_CHORD_SWAP, S7_TRICK_MIX}
          /\ ~SeqTimerRunning(p, now)
  THEN IF ~p.six7ChordWaitingSecond
       THEN [p EXCEPT !.six7ChordWaitingSecond = TRUE,
                      !.six7ChordFirstBtn = e.num,
                      !.six7ChordTimer = TimerStart(now, SIX7_CHORD_WINDOW_MS)]
       ELSE IF TimerDoneParty(p.six7ChordTimer, now) THEN enterGameOverParty(p, now)
       ELSE IF e.num = p.six7ChordFirstBtn THEN enterGameOverParty(p, now)
       ELSE IF ~(\/ p.six7ChordFirstBtn = 1 /\ e.num = 3
                 \/ p.six7ChordFirstBtn = 3 /\ e.num = 1)
            THEN enterGameOverParty(p, now)
       ELSE six7BeginRound(
              [shrinkWindow([p EXCEPT !.G.score = U16(@ + 1)])
                 EXCEPT !.six7ChordWaitingSecond = FALSE, !.six7ChordFirstBtn = 0],
              now, r)
  ELSE IF SeqTimerRunning(p, now)
  THEN IF ~p.six7SeqWaitingSecond
       THEN IF e.num # p.six7SeqFirstBtn THEN enterGameOverParty(p, now)
            ELSE [p EXCEPT !.six7SeqWaitingSecond = TRUE,
                           !.six7SeqTimer = TimerStart(now, SIX7_SEQ_WINDOW_MS)]
       ELSE IF TimerDoneParty(p.six7SeqTimer, now) THEN enterGameOverParty(p, now)
       ELSE IF e.num # p.G.forbidA THEN enterGameOverParty(p, now)
       ELSE six7BeginRound(
              [shrinkWindow([p EXCEPT !.G.score = U16(@ + 1)])
                 EXCEPT !.six7SeqWaitingSecond = FALSE, !.six7SeqFirstBtn = 0,
                        !.six7SeqTimer.dur = 0],
              now, r)
  ELSE IF e.num # p.G.expectedBtn THEN enterGameOverParty(p, now)
  ELSE six7BeginRound(shrinkWindow([p EXCEPT !.G.score = U16(@ + 1)]), now, r)

(***************************************************************************)
(* Party Edition: Playing / Attract / Gameover, setup                      *)
(***************************************************************************)
enterPlayingParty(p, now, r) ==
  LET p1 == [p EXCEPT !.gMode = MODE_PLAYING,
                      !.gModeStartMs = now,
                      !.G.score = 0,
                      !.G.windowMs = WINDOW_START_MS,
                      !.G.roundStartMs = now,
                      !.G.expectedBtn = 0,
                      !.G.forbidA = 0,
                      !.G.forbidB = 0]
  IN  IF p1.gGame = GAME_CORD THEN cordBeginShow(cordReset(p1, r), now)
      ELSE IF p1.gGame = GAME_6OR7
      THEN six7BeginRound([p1 EXCEPT !.six7StageBlock = 255,
                                     !.six7SeqTimer.dur = 0], now, r)
      ELSE IF p1.gGame = GAME_NOT THEN newRoundNotParty(p1, now, r)
      ELSE IF p1.gGame = GAME_HARD THEN newRoundClassicParty(p1, now, TRUE, r)
      ELSE newRoundClassicParty(p1, now, FALSE, r)

playingTickParty(p, now) ==
  IF p.gGame = GAME_CORD THEN cordTick(p, now)
  ELSE LET p1 == IF p.gGame = GAME_6OR7 THEN six7Tick(p, now) ELSE p
       IN  IF Ge32(Sub32(now, p1.G.roundStartMs), p1.G.windowMs)
           THEN enterGameOverParty(p1, now)
           ELSE p1

playingHandleButton(p, now, e, r) ==
  IF ~e.has \/ e.act # BTN_DOWN THEN p
  ELSE IF p.gGame = GAME_CORD THEN cordHandleButton(p, now, e, r)
  ELSE IF p.gGame = GAME_6OR7 THEN six7HandleButton(p, now, e, r)
  ELSE IF e.num # p.G.expectedBtn THEN enterGameOverParty(p, now)
  ELSE LET p1 == shrinkWindow([p EXCEPT !.G.score = U16(@ + 1)])
       IN  IF p1.gGame = GAME_NOT THEN newRoundNotParty(p1, now, r)
           ELSE IF p1.gGame = GAME_HARD THEN newRoundClassicParty(p1, now, TRUE, r)
           ELSE newRoundClassicParty(p1, now, FALSE, r)

\* attractTick only drives the display (label / high score pulse).
attractTickParty(p, now) == p

attractHandleButton(p, now, e, r) ==
  IF ~e.has \/ e.act # BTN_DOWN THEN p
  ELSE IF e.num = 1
  THEN [p EXCEPT !.gGame = IF @ = 0 THEN GAME_COUNT_PARTY - 1 ELSE @ - 1]
  ELSE IF e.num = 3 THEN [p EXCEPT !.gGame = (@ + 1) % GAME_COUNT_PARTY]
  ELSE IF e.num = 2 THEN enterPlayingParty(p, now, r)
  ELSE p

gameOverTickParty(p, now) ==
  LET e == Sub32(now, p.gModeStartMs)
  IN  IF Lt32(e, GAMEOVER_SCORE_MS) THEN p
      ELSE IF Lt32(e, GAMEOVER_SCORE_MS + GAMEOVER_HI_MS) THEN p
      ELSE enterAttractParty(p, now)

RECURSIVE LoadHiFromParty(_, _)
LoadHiFromParty(p, i) ==
  IF i >= GAME_COUNT_PARTY THEN p
  ELSE LoadHiFromParty([p EXCEPT !.G.hi[i] = eepromLoadHiParty(p.EEPROM, i)], i + 1)

\* setup(); raw is the value of MFS.getButton(), now the value of millis() at
\* the end.
setupParty(p, raw, now) ==
  LET p1 == LoadHiFromParty(p, 0)
      p2 == IF BootClear(raw) THEN eepromClearAllHi(p1) ELSE p1
  IN  enterAttractParty(p2, now)

(***************************************************************************)
(* Inputs.  A bounds record B gives the inputs and bounds of one           *)
(* specification: the clock advances by B.dts between two iterations of    *)
(* loop(), B.raws are the values of MFS.getButton() (B.brtRaws on the      *)
(* brightness screen, B.bootRaws in setup()), B.eeproms the contents of    *)
(* the store at power-on, B.cap[g] bounds the score in game g, B.maxNow    *)
(* bounds the clock, B.idleUntil the clock in Attract and GameOver, and    *)
(* the player presses button 2 in Attract only while the clock is at most  *)
(* B.startUntil; B.ptrnSlack bounds the delay of a Ptrn session.  The      *)
(* clock bounds of a specification are numbers of its clock steps after    *)
(* setup().  B.sleeps are the lengths (uint32_t) of the periods the        *)
(* machine is left alone in Attract, from the time it entered Attract:     *)
(* its iterations of loop() without a button event only drive the display, *)
(* so that one iteration stands for them all; the clock then comes up to   *)
(* B.before ms close to the overflow of millis().                          *)
(***************************************************************************)
\* The values random() returns in one call of a round generator.
NoRand ==
  [d |-> 1, p |-> 0, bs |-> <<1>>, stageR |-> 0, step |-> 0, six |-> 0,
   mixR |-> 0, mixSeq76 |-> 0, mixSwap |-> 1]

\* How often newRoundNot may draw again the value it already has.
MaxRedraw == 1

Redraws(a) ==
  UNION { { [i \in 1 .. n |-> IF i < n THEN a ELSE b] : b \in (1 .. 3) \ {a} }
          : n \in 1 .. (MaxRedraw + 1) }

RandClassic == { [NoRand EXCEPT !.d = d] : d \in 1 .. 3 }

RandHard == { [NoRand EXCEPT !.d = d, !.p = p] : d \in 1 .. 3, p \in 0 .. 3 }

RandNot ==
  UNION { { [NoRand EXCEPT !.d = a, !.bs = bs] : bs \in Redraws(a) } : a \in 1 .. 3 }

\* Element i of the Ptrn sequence: any button for the first B.ptrnFree
\* elements, one fixed button afterwards.
RandPtrn(B, i) ==
  { [NoRand EXCEPT !.d = d] : d \in IF i < B.ptrnFree THEN 1 .. 3 ELSE {(i % 3) + 1} }

\* One value of random(0, 100) on each side of every threshold of
\* pickTrickStageWeighted, and of the TRICK_MIX roll of g67BeginRound.
StageDraws == {0, 24, 25, 42, 43, 56, 57, 67, 68, 77, 78, 87, 88, 93, 94, 97, 98, 99}

MixDraws == {0, 21, 22, 43, 44, 57, 58, 77, 78, 89, 90, 99}

\* The draws of a 67 round that starts with score s in stage stage.
Rand67(B, stage, nextAt, s) ==
  LET reroll == s >= G67_INTRO_POINTS /\ (stage = G67_INTRO \/ s >= nextAt)
  IN  UNION {
        LET st == IF s < G67_INTRO_POINTS THEN G67_INTRO
                  ELSE IF reroll THEN pickTrickStageWeighted(sr) ELSE stage
            mix == st = G67_TRICK_MIX
        IN  { [NoRand EXCEPT !.stageR = sr, !.step = sp, !.six = x, !.mixR = mr,
                             !.mixSeq76 = q, !.mixSwap = sw]
              : x \in 0 .. 1,
                mr \in (IF mix THEN B.mixDraws ELSE {0}),
                q \in (IF mix THEN 0 .. 1 ELSE {0}),
                sw \in (IF mix THEN {0, 4} ELSE {1}) }
        : sr \in (IF reroll THEN B.stageDraws ELSE {0}),
          sp \in (IF reroll THEN 0 .. 1 ELSE {0}) }

\* The draws of the round that starts in machine state m with score s.
RandRound(B, m, s) ==
  IF m.gGame = GAME_CLSC THEN RandClassic
  ELSE IF m.gGame = GAME_HARD THEN RandHard
  ELSE IF m.gGame = GAME_NOT THEN RandNot
  ELSE IF m.gGame = GAME_PTRN THEN RandPtrn(B, IF s = 0 THEN 0 ELSE m.ptrnLen)
  ELSE IF m.gGame = GAME_67
       THEN Rand67(B, IF s = 0 THEN G67_INTRO ELSE m.g67Stage,
                   m.g67NextStageAtScore, s)
  ELSE {NoRand}

\* A clock value as its distance in ms from the overflow of millis(): negative
\* before the overflow, from 0 after it (and after boot).
Rel(t) == IF t[1] >= 32768 THEN (t[1] - W16) * W16 + t[2] ELSE t[1] * W16 + t[2]

InHorizon(B, now) == Rel(now) <= B.maxNow /\ Rel(now) >= 0 - B.before

\* The Attract and GameOver screens are followed while the clock is at most
\* B.idleUntil.
InIdle(B, now) == Rel(now) <= B.idleUntil

\* The time the show phases of the first s replays of a Ptrn session take
\* when the clock advances by PTRN_SHOW_STEP_MS.
PtrnShowMs(s) ==
  2 * PTRN_SHOW_STEP_MS
    * (IF s <= PTRN_MAX_SEQ THEN (s * (s + 1)) \div 2
       ELSE (PTRN_MAX_SEQ * (PTRN_MAX_SEQ + 1)) \div 2 + PTRN_MAX_SEQ * (s - PTRN_MAX_SEQ))

\* A Ptrn session in state m is followed while it is at most B.ptrnSlack
\* behind the end of the show phase of its current replay.
OnPace(B, m, now) ==
  (m.gMode = MODE_PLAYING /\ m.gGame = GAME_PTRN) =>
    LET e == Sub32(now, m.gModeStartMs)
    IN  e[1] < 32768 /\ e[1] * W16 + e[2] <= PtrnShowMs(m.G.score + 1) + B.ptrnSlack

\* Button 2 is pressed in Attract only while the clock is at most B.startUntil.
CanStart(B, now) == Rel(now) <= B.startUntil

Erased == [a \in EepromAddrs |-> 255]

\* A store that holds high scores 2 (CLSC) and 1 (67) and brightness 2.
Used ==
  eepromSaveBrightnessInternal(
    EepromPut16(EepromPut16(Erased, hiAddr(GAME_CLSC), 2), hiAddr(GAME_67), 1), 2)

InitB(B) ==
  /\ pc = "boot"
  /\ clock = U32(0)
  /\ EEPROM \in B.eeproms
  /\ gMode = MODE_ATTRACT
  /\ gGame = GAME_CLSC
  /\ G = [score |-> 0, hi |-> [g \in Games |-> 0], windowMs |-> 0,
          roundStartMs |-> U32(0), expectedBtn |-> 0, auxA |-> 0, auxB |-> 0]
  /\ gBtn = [num |-> 0, hasDown |-> FALSE]
  /\ gModeStartMs = U32(0)
  /\ gBrightnessInternal = BRT_INTERNAL_MAX
  /\ ptrnPhase = PTRN_SHOWING
  /\ ptrnSeq = [i \in 0 .. (PTRN_MAX_SEQ - 1) |-> 0]
  /\ ptrnLen = 1
  /\ ptrnIndex = 0
  /\ ptrnShowTimer = Timer0
  /\ ptrnShowPos = 0
  /\ ptrnShowingDigit = TRUE
  /\ ptrnInputTimer = Timer0
  /\ g67Stage = G67_INTRO
  /\ g67Digit = 6
  /\ g67Side = 0
  /\ g67NotFlag = FALSE
  /\ g67RoundChord = FALSE
  /\ g67ChordWaitingSecond = FALSE
  /\ g67ChordFirstBtn = 0
  /\ g67ChordTimer = Timer0
  /\ g67RoundSeq = FALSE
  /\ g67SeqWaitingSecond = FALSE
  /\ g67SeqFirstBtn = 0
  /\ g67SeqTimer = Timer0
  /\ g67NextStageAtScore = 0
  /\ goCalls = 0
  /\ hiSaves = 0
  /\ party = PowerOnParty

\* setup(), with its delays
SetupB(B) ==
  /\ pc = "boot"
  /\ \E raw \in B.bootRaws :
       \E now \in {Add32(clock, BOOT_CLEAR_DELAY_MS
                                + (IF BootClear(raw) THEN BOOT_HI0_MS ELSE 0))} :
         \E m1 \in {setup(Cur, raw, now)} :
           /\ Commit(m1)
           /\ clock' = now
           /\ pc' = "loop"

\* loop(), case MODE_ATTRACT
AttractLoopB(B) ==
  /\ pc = "loop"
  /\ gMode = MODE_ATTRACT
  /\ \E dt \in {U32(d) : d \in B.dts} \cup B.sleeps,
        raw \in (IF gGame = GAME_BRT THEN B.brtRaws ELSE B.raws) :
       \E now \in {Plus32(clock, dt)} :
         /\ dt \in B.sleeps => (raw = 0 /\ clock = gModeStartMs)
         /\ InHorizon(B, now)
         /\ InIdle(B, now)
         /\ raw = 2 => CanStart(B, now)
         /\ \E m1 \in {attractTick(readButtons(Cur, raw), now)} :
              \E r \in (IF m1.gBtn.hasDown /\ m1.gBtn.num = 2
                        THEN RandRound(B, m1, 0) ELSE {NoRand}) :
                \E m2 \in {IF m1.gBtn.hasDown
                           THEN attractHandleDown(m1, now, m1.gBtn.num, r)
                           ELSE m1} :
                  /\ Commit(m2)
                  /\ clock' = now
                  /\ pc' = pc

\* loop(), case MODE_PLAYING
PlayingLoopB(B) ==
  /\ pc = "loop"
  /\ gMode = MODE_PLAYING
  /\ \E dt \in B.dts, raw \in B.raws :
       \E now \in {Add32(clock, dt)} :
         /\ InHorizon(B, now)
         /\ \E m1 \in {playingTick(readButtons(Cur, raw), now)} :
              \E r \in (IF m1.gBtn.hasDown
                        THEN RandRound(B, m1, m1.G.score + 1) ELSE {NoRand}) :
                \E m2 \in {IF m1.gBtn.hasDown
                           THEN playingHandleDown(m1, now, m1.gBtn.num, r)
                           ELSE m1} :
                  /\ m2.G.score <= B.cap[m2.gGame]
                  /\ OnPace(B, m2, now)
                  /\ Commit(m2)
                  /\ clock' = now
                  /\ pc' = pc

\* loop(), case MODE_GAMEOVER
GameOverLoopB(B) ==
  /\ pc = "loop"
  /\ gMode = MODE_GAMEOVER
  /\ \E dt \in B.dts, raw \in B.raws :
       \E now \in {Add32(clock, dt)} :
         /\ InHorizon(B, now)
         /\ InIdle(B, now)
         /\ \E m1 \in {gameOverTick(readButtons(Cur, raw), now)} :
              /\ Commit(m1)
              /\ clock' = now
              /\ pc' = pc

(***************************************************************************)
(* Spec: every game, short sessions, clock steps of 0 and 1000 ms.         *)
(***************************************************************************)
MaxScore == 3
MaxSteps == 5

Bounds ==
  [dts |-> {0, 1000}, raws |-> {0, 1, 2, 3, 65}, brtRaws |-> {0, 1, 3},
   bootRaws |-> {0, 1}, sleeps |-> {}, before |-> 0,
   eeproms |-> {Used},
   cap |-> [g \in Games |-> MaxScore],
   maxNow |-> BOOT_CLEAR_DELAY_MS + MaxSteps * 1000,
   idleUntil |-> BOOT_CLEAR_DELAY_MS + MaxSteps * 1000,
   ptrnSlack |-> BOOT_CLEAR_DELAY_MS + MaxSteps * 1000,
   startUntil |-> BOOT_CLEAR_DELAY_MS + MaxSteps * 1000, ptrnFree |-> 2,
   stageDraws |-> StageDraws, mixDraws |-> MixDraws]

Init == InitB(Bounds)

Setup == SetupB(Bounds)

AttractLoop == AttractLoopB(Bounds)

PlayingLoop == PlayingLoopB(Bounds)

GameOverLoop == GameOverLoopB(Bounds)

Next == Setup \/ AttractLoop \/ PlayingLoop \/ GameOverLoop

Spec == Init /\ [][Next]_vars

(***************************************************************************)
(* SpecLong: long sessions of CLSC and NOT, clock steps of 0 and 2000 ms.  *)
(***************************************************************************)
LongScore == 100
LongSteps == 2
LongStartSteps == 0

LongBounds ==
  [dts |-> {0, 2000}, raws |-> {0, 1, 2, 3}, brtRaws |-> {0, 1, 3},
   bootRaws |-> {0}, sleeps |-> {}, before |-> 0,
   eeproms |-> {Used},
   cap |-> [g \in Games |-> IF g \in {GAME_CLSC, GAME_NOT} THEN LongScore ELSE 1],
   maxNow |-> BOOT_CLEAR_DELAY_MS + LongSteps * 2000,
   idleUntil |-> BOOT_CLEAR_DELAY_MS + LongSteps * 2000,
   ptrnSlack |-> BOOT_CLEAR_DELAY_MS + LongSteps * 2000,
   startUntil |-> BOOT_CLEAR_DELAY_MS + LongStartSteps * 2000, ptrnFree |-> 1,
   stageDraws |-> StageDraws, mixDraws |-> MixDraws]

InitLong == InitB(LongBounds)

SetupLong == SetupB(LongBounds)

AttractLoopLong == AttractLoopB(LongBounds)

PlayingLoopLong == PlayingLoopB(LongBounds)

GameOverLoopLong == GameOverLoopB(LongBounds)

NextLong == SetupLong \/ AttractLoopLong \/ PlayingLoopLong \/ GameOverLoopLong

SpecLong == InitLong /\ [][NextLong]_vars

(***************************************************************************)
(* Spec67: sessions of the 67 game that leave the intro for the stages     *)
(* TRICK_MIX (rolling NOT or the short window), NOT and SHORT_WIN, clock   *)
(* steps of 0 and 2000 ms.                                                 *)
(***************************************************************************)
Max67Score == 13
Max67Steps == 2
Start67Steps == 0

Bounds67 ==
  [dts |-> {0, 2000}, raws |-> {0, 1, 2, 3}, brtRaws |-> {0, 1, 3},
   bootRaws |-> {0}, sleeps |-> {}, before |-> 0,
   eeproms |-> {Used},
   cap |-> [g \in Games |-> IF g = GAME_67 THEN Max67Score ELSE 0],
   maxNow |-> BOOT_CLEAR_DELAY_MS + Max67Steps * 2000,
   idleUntil |-> BOOT_CLEAR_DELAY_MS + Max67Steps * 2000,
   ptrnSlack |-> BOOT_CLEAR_DELAY_MS + Max67Steps * 2000,
   startUntil |-> BOOT_CLEAR_DELAY_MS + Start67Steps * 2000, ptrnFree |-> 1,
   stageDraws |-> {0, 50, 99}, mixDraws |-> {0, 90}]

Init67 == InitB(Bounds67)

Setup67 == SetupB(Bounds67)

AttractLoop67 == AttractLoopB(Bounds67)

PlayingLoop67 == PlayingLoopB(Bounds67)

GameOverLoop67 == GameOverLoopB(Bounds67)

Next67 == Setup67 \/ AttractLoop67 \/ PlayingLoop67 \/ GameOverLoop67

Spec67 == Init67 /\ [][Next67]_vars

(***************************************************************************)
(* SpecPtrn: one long session of Ptrn.  The clock advances by 0 or by      *)
(* PTRN_SHOW_STEP_MS, so that each show timer is done one step after it    *)
(* was started; the session may fall PtrnSlack steps behind the fastest    *)
(* replay of every sequence.                                               *)
(***************************************************************************)
PtrnScore == 21
PtrnSlack == 4
PtrnIdleSteps == 20

BoundsPtrn ==
  [dts |-> {0, PTRN_SHOW_STEP_MS}, raws |-> {0, 1, 2, 3}, brtRaws |-> {0, 1, 3},
   bootRaws |-> {0}, sleeps |-> {}, before |-> 0,
   eeproms |-> {Used},
   cap |-> [g \in Games |-> IF g = GAME_PTRN THEN PtrnScore ELSE 0],
   maxNow |-> BOOT_CLEAR_DELAY_MS + PtrnShowMs(PtrnScore + 1)
                + PtrnSlack * PTRN_SHOW_STEP_MS,
   ptrnSlack |-> PtrnSlack * PTRN_SHOW_STEP_MS,
   idleUntil |-> BOOT_CLEAR_DELAY_MS + PtrnIdleSteps * PTRN_SHOW_STEP_MS,
   startUntil |-> BOOT_CLEAR_DELAY_MS, ptrnFree |-> 1,
   stageDraws |-> {0}, mixDraws |-> {0}]

InitPtrn == InitB(BoundsPtrn)

SetupPtrn == SetupB(BoundsPtrn)

AttractLoopPtrn == AttractLoopB(BoundsPtrn)

PlayingLoopPtrn == PlayingLoopB(BoundsPtrn)

GameOverLoopPtrn == GameOverLoopB(BoundsPtrn)

NextPtrn == SetupPtrn \/ AttractLoopPtrn \/ PlayingLoopPtrn \/ GameOverLoopPtrn

SpecPtrn == InitPtrn /\ [][NextPtrn]_vars

(***************************************************************************)
(* SpecPair: sessions of the 67 game that leave the intro for the chord    *)
(* and the ordered-pair stages (CHORD, SEQ_67, SEQ_76, and TRICK_MIX       *)
(* rolling a chord or a pair), and short sessions of Ptrn; clock steps of  *)
(* 0 and 500 ms, which fall on both sides of the chord window, of the pair *)
(* window and of the Ptrn input time.                                      *)
(***************************************************************************)
PairScore == 11
PairSteps == 5
PairPtrnScore == 1

BoundsPair ==
  [dts |-> {0, 500}, raws |-> {0, 1, 2, 3}, brtRaws |-> {0, 1, 3},
   bootRaws |-> {0}, sleeps |-> {}, before |-> 0,
   eeproms |-> {Used},
   cap |-> [g \in Games |-> IF g = GAME_67 THEN PairScore
                            ELSE IF g = GAME_PTRN THEN PairPtrnScore ELSE 0],
   maxNow |-> BOOT_CLEAR_DELAY_MS + PairSteps * 500,
   idleUntil |-> BOOT_CLEAR_DELAY_MS,
   ptrnSlack |-> BOOT_CLEAR_DELAY_MS + PairSteps * 500,
   startUntil |-> BOOT_CLEAR_DELAY_MS, ptrnFree |-> 1,
   stageDraws |-> {0, 57, 68, 78}, mixDraws |-> {44, 58}]

InitPair == InitB(BoundsPair)

SetupPair == SetupB(BoundsPair)

AttractLoopPair == AttractLoopB(BoundsPair)

PlayingLoopPair == PlayingLoopB(BoundsPair)

GameOverLoopPair == GameOverLoopB(BoundsPair)

NextPair == SetupPair \/ AttractLoopPair \/ PlayingLoopPair \/ GameOverLoopPair

SpecPair == InitPair /\ [][NextPair]_vars

(***************************************************************************)
(* SpecStage: long sessions of the 67 game, through the intro, the first    *)
(* roll of the stage (TRICK_MIX, NOT, CHORD or SHORT_WIN) and the next     *)
(* one, clock steps of 0 and 2000 ms.                                      *)
(***************************************************************************)
StageScore == 17
StageSteps == 1

BoundsStage ==
  [dts |-> {0, 2000}, raws |-> {0, 1, 2, 3}, brtRaws |-> {0, 1, 3},
   bootRaws |-> {0}, sleeps |-> {}, before |-> 0,
   eeproms |-> {Used},
   cap |-> [g \in Games |-> IF g = GAME_67 THEN StageScore ELSE 0],
   maxNow |-> BOOT_CLEAR_DELAY_MS + StageSteps * 2000,
   idleUntil |-> BOOT_CLEAR_DELAY_MS,
   ptrnSlack |-> BOOT_CLEAR_DELAY_MS + StageSteps * 2000,
   startUntil |-> BOOT_CLEAR_DELAY_MS, ptrnFree |-> 1,
   stageDraws |-> {0, 43, 57, 99}, mixDraws |-> {0, 58}]

InitStage == InitB(BoundsStage)

SetupStage == SetupB(BoundsStage)

AttractLoopStage == AttractLoopB(BoundsStage)

PlayingLoopStage == PlayingLoopB(BoundsStage)

GameOverLoopStage == GameOverLoopB(BoundsStage)

NextStage == SetupStage \/ AttractLoopStage \/ PlayingLoopStage \/ GameOverLoopStage

SpecStage == InitStage /\ [][NextStage]_vars

(***************************************************************************)
(* SpecAgain: a session of Ptrn or of 67 that scores, its GameOver screen  *)
(* and the session after it, AgainSteps clock steps later; clock steps of  *)
(* 0 and of the length of the GameOver screen.                             *)
(***************************************************************************)
AgainPtrnScore == 1
Again67Score == 11
AgainSteps == 7

BoundsAgain ==
  [dts |-> {0, GAMEOVER_SCORE_MS + GAMEOVER_HI_MS}, raws |-> {0, 1, 2, 3}, brtRaws |-> {0, 1, 3},
   bootRaws |-> {0}, sleeps |-> {}, before |-> 0,
   eeproms |-> {Used},
   cap |-> [g \in Games |-> IF g = GAME_PTRN THEN AgainPtrnScore
                            ELSE IF g = GAME_67 THEN Again67Score ELSE 0],
   maxNow |-> BOOT_CLEAR_DELAY_MS + AgainSteps * (GAMEOVER_SCORE_MS + GAMEOVER_HI_MS),
   idleUntil |-> BOOT_CLEAR_DELAY_MS + AgainSteps * (GAMEOVER_SCORE_MS + GAMEOVER_HI_MS),
   ptrnSlack |-> BOOT_CLEAR_DELAY_MS + AgainSteps * (GAMEOVER_SCORE_MS + GAMEOVER_HI_MS),
   startUntil |-> BOOT_CLEAR_DELAY_MS + AgainSteps * (GAMEOVER_SCORE_MS + GAMEOVER_HI_MS), ptrnFree |-> 1,
   stageDraws |-> {0, 57}, mixDraws |-> {0}]

InitAgain == InitB(BoundsAgain)

SetupAgain == SetupB(BoundsAgain)

\* The player starts a session right after setup() or at the end.
AttractLoopAgain ==
  /\ AttractLoopB(BoundsAgain)
  /\ gMode' = MODE_PLAYING
       => \/ Rel(clock') <= BOOT_CLEAR_DELAY_MS
          \/ Rel(clock') >= BoundsAgain.maxNow

PlayingLoopAgain == PlayingLoopB(BoundsAgain)

GameOverLoopAgain == GameOverLoopB(BoundsAgain)

NextAgain == SetupAgain \/ AttractLoopAgain \/ PlayingLoopAgain \/ GameOverLoopAgain

SpecAgain == InitAgain /\ [][NextAgain]_vars

(***************************************************************************)
(* SpecLeak: sessions of 67 that reach a chord or an ordered-pair round    *)
(* and of Ptrn that reach the second replay, ended at any point of the     *)
(* round, and the session after them; clock steps of 0 and of the length   *)
(* of the GameOver screen.                                                 *)
(***************************************************************************)
LeakPtrnScore == 1
Leak67Score == 11
LeakSteps == 7

BoundsLeak ==
  [dts |-> {0, GAMEOVER_SCORE_MS + GAMEOVER_HI_MS}, raws |-> {0, 1, 2, 3}, brtRaws |-> {0},
   bootRaws |-> {0}, sleeps |-> {}, before |-> 0,
   eeproms |-> {Used},
   cap |-> [g \in Games |-> IF g = GAME_PTRN THEN LeakPtrnScore
                            ELSE IF g = GAME_67 THEN Leak67Score ELSE 0],
   maxNow |-> BOOT_CLEAR_DELAY_MS + LeakSteps * (GAMEOVER_SCORE_MS + GAMEOVER_HI_MS),
   idleUntil |-> BOOT_CLEAR_DELAY_MS + LeakSteps * (GAMEOVER_SCORE_MS + GAMEOVER_HI_MS),
   ptrnSlack |-> BOOT_CLEAR_DELAY_MS + LeakSteps * (GAMEOVER_SCORE_MS + GAMEOVER_HI_MS),
   startUntil |-> BOOT_CLEAR_DELAY_MS + LeakSteps * (GAMEOVER_SCORE_MS + GAMEOVER_HI_MS), ptrnFree |-> 1,
   stageDraws |-> {0, 57, 68}, mixDraws |-> {0}]

InitLeak == InitB(BoundsLeak)

SetupLeak == SetupB(BoundsLeak)

\* The player selects Ptrn or 67 and starts a session right after setup() or
\* at the end.
AttractLoopLeak ==
  /\ AttractLoopB(BoundsLeak)
  /\ gMode' = MODE_PLAYING
       => /\ gGame' \in {GAME_PTRN, GAME_67}
          /\ \/ Rel(clock') <= BOOT_CLEAR_DELAY_MS
             \/ Rel(clock') >= BoundsLeak.maxNow

PlayingLoopLeak == PlayingLoopB(BoundsLeak)

GameOverLoopLeak == GameOverLoopB(BoundsLeak)

NextLeak == SetupLeak \/ AttractLoopLeak \/ PlayingLoopLeak \/ GameOverLoopLeak

SpecLeak == InitLeak /\ [][NextLeak]_vars

(***************************************************************************)
(* SpecKind: sessions of the 67 game through the intro and the first       *)
(* rounds after it, with one draw for every stage pickTrickStageWeighted   *)
(* can roll and for every roll of TRICK_MIX; clock steps of 0 and 2000 ms. *)
(***************************************************************************)
KindScore == 11
KindSteps == 1

BoundsKind ==
  [dts |-> {0, 2000}, raws |-> {0, 1, 2, 3}, brtRaws |-> {0},
   bootRaws |-> {0}, sleeps |-> {}, before |-> 0,
   eeproms |-> {Used},
   cap |-> [g \in Games |-> IF g = GAME_67 THEN KindScore ELSE 0],
   maxNow |-> BOOT_CLEAR_DELAY_MS + KindSteps * 2000,
   idleUntil |-> BOOT_CLEAR_DELAY_MS + KindSteps * 2000,
   ptrnSlack |-> BOOT_CLEAR_DELAY_MS + KindSteps * 2000,
   startUntil |-> BOOT_CLEAR_DELAY_MS, ptrnFree |-> 1,
   stageDraws |-> {0, 25, 43, 57, 68, 78, 88, 94, 98},
   mixDraws |-> {0, 22, 44, 58, 78, 90}]

InitKind == InitB(BoundsKind)

SetupKind == SetupB(BoundsKind)

AttractLoopKind == AttractLoopB(BoundsKind)

PlayingLoopKind == PlayingLoopB(BoundsKind)

GameOverLoopKind == GameOverLoopB(BoundsKind)

NextKind == SetupKind \/ AttractLoopKind \/ PlayingLoopKind \/ GameOverLoopKind

SpecKind == InitKind /\ [][NextKind]_vars

(***************************************************************************)
(* SpecSel: the selector.  Every button and a button id the shield has no  *)
(* button for, on every screen of Attract, the brightness screen included; *)
(* the sessions are followed up to their first success, clock steps of 0   *)
(* and 1000 ms.                                                            *)
(***************************************************************************)
SelScore == 1
SelSteps == 5

BoundsSel ==
  [dts |-> {0, 1000}, raws |-> {0, 1, 2, 3, 4}, brtRaws |-> {0, 1, 2, 3, 4},
   bootRaws |-> {0}, sleeps |-> {}, before |-> 0,
   eeproms |-> {Used},
   cap |-> [g \in Games |-> SelScore],
   maxNow |-> BOOT_CLEAR_DELAY_MS + SelSteps * 1000,
   idleUntil |-> BOOT_CLEAR_DELAY_MS + SelSteps * 1000,
   ptrnSlack |-> BOOT_CLEAR_DELAY_MS + SelSteps * 1000,
   startUntil |-> BOOT_CLEAR_DELAY_MS + SelSteps * 1000, ptrnFree |-> 1,
   stageDraws |-> {0}, mixDraws |-> {0}]

InitSel == InitB(BoundsSel)

SetupSel == SetupB(BoundsSel)

AttractLoopSel == AttractLoopB(BoundsSel)

PlayingLoopSel == PlayingLoopB(BoundsSel)

GameOverLoopSel == GameOverLoopB(BoundsSel)

NextSel == SetupSel \/ AttractLoopSel \/ PlayingLoopSel \/ GameOverLoopSel

SpecSel == InitSel /\ [][NextSel]_vars

(***************************************************************************)
(* SpecStore: the high-score store on its own.  After the loads of setup() *)
(* the store is written as enterGameOver writes it, G.hi[id] = v and       *)
(* eepromSaveHi(id, G.hi[id]), for any game id and any value v of          *)
(* StoreValues, and cleared as the boot clear clears it, up to StoreWrites *)
(* times.                                                                  *)
(***************************************************************************)
StoreWrites == 2

\* 16-bit values around the byte borders, and the sentinel
StoreValues == {0, 1, 255, 256, 257, 32767, 32768, 65279, 65280, 65534, 65535}

InitStore == InitB(Bounds)

\* setup(), the loads of the high scores
LoadStore ==
  /\ pc = "boot"
  /\ Commit(LoadHiFrom(Cur, 0))
  /\ pc' = "store"
  /\ clock' = clock

\* enterGameOver, the store of a new high score, for the game id and the score v
SaveHiStore ==
  /\ pc = "store"
  /\ hiSaves < StoreWrites
  /\ \E id \in Games, v \in StoreValues :
       Commit([Cur EXCEPT !.G.hi[id] = v,
                          !.EEPROM = eepromSaveHi(@, id, v),
                          !.hiSaves = @ + 1])
  /\ UNCHANGED <<pc, clock>>

\* eepromClearAllHiAndBrightness()
ClearStore ==
  /\ pc = "store"
  /\ hiSaves < StoreWrites
  /\ \E m1 \in {eepromClearAllHiAndBrightness(Cur)} :
       Commit([m1 EXCEPT !.hiSaves = @ + 1])
  /\ UNCHANGED <<pc, clock>>

NextStore == LoadStore \/ SaveHiStore \/ ClearStore

SpecStore == InitStore /\ [][NextStore]_vars

(***************************************************************************)
(* SpecTimer: the Timer type on its own.  ptrnInputTimer is started at any *)
(* time of TimerStarts with any duration of TimerDurs, the duration 0      *)
(* among them, and guards a Ptrn input phase that ptrnTick polls up to     *)
(* TimerPolls times, at clock steps of TimerSteps.                         *)
(***************************************************************************)
TimerPolls == 3

\* Values of millis() at the overflow, at the sign bit and after boot
TimerStarts == {U32(0), U32(200), <<32767, 65535>>, <<32768, 0>>, <<65535, 65535>>}

TimerDurs == {0, 1, PTRN_GAP_MS, PTRN_TIMEOUT_MS}

\* Clock steps (uint32_t) from 0 to 2^32 - 1
TimerSteps ==
  {U32(0), U32(1), U32(PTRN_TIMEOUT_MS), <<32768, 0>>, <<65535, 65535>>}

InitTimer == InitB(Bounds)

\* ptrnInputTimer.start(now, duration), in the input phase of a Ptrn session
StartTimer ==
  /\ pc = "boot"
  /\ \E t0 \in TimerStarts, d \in TimerDurs :
       /\ Commit([Cur EXCEPT !.gMode = MODE_PLAYING,
                             !.gGame = GAME_PTRN,
                             !.gModeStartMs = t0,
                             !.ptrnPhase = PTRN_INPUT,
                             !.ptrnInputTimer = TimerStart(t0, d)])
       /\ clock' = t0
  /\ pc' = "timer"

\* loop(), case MODE_PLAYING, without a button event: ptrnTick polls the
\* timer
PollTimer ==
  /\ pc = "timer"
  /\ gMode = MODE_PLAYING
  /\ hiSaves < TimerPolls
  /\ \E dt \in TimerSteps :
       \E now \in {Plus32(clock, dt)} :
         \E m1 \in {playingTick(Cur, now)} :
           /\ Commit([m1 EXCEPT !.hiSaves = @ + 1])
           /\ clock' = now
  /\ pc' = pc

NextTimer == StartTimer \/ PollTimer

SpecTimer == InitTimer /\ [][NextTimer]_vars

(***************************************************************************)
(* SpecWrap: the overflow of millis().  The machine is left alone in       *)
(* Attract until WrapBefore ms before the overflow; the sessions started   *)
(* from then on, up to the overflow, and their GameOver screens are        *)
(* followed for WrapSteps clock steps of 1000 ms.                          *)
(***************************************************************************)
WrapBefore == 2500
WrapSteps == 7
WrapScore == 1

BoundsWrap ==
  [dts |-> {0, 1000}, raws |-> {0, 1, 2, 3}, brtRaws |-> {0, 1, 3},
   bootRaws |-> {0},
   sleeps |-> {Sub32(U32(0), U32(BOOT_CLEAR_DELAY_MS + WrapBefore))},
   before |-> WrapBefore,
   eeproms |-> {Used},
   cap |-> [g \in Games |-> WrapScore],
   maxNow |-> WrapSteps * 1000 - WrapBefore,
   idleUntil |-> WrapSteps * 1000 - WrapBefore,
   ptrnSlack |-> WrapSteps * 1000,
   startUntil |-> 0, ptrnFree |-> 1,
   stageDraws |-> {0}, mixDraws |-> {0}]

InitWrap == InitB(BoundsWrap)

SetupWrap == SetupB(BoundsWrap)

AttractLoopWrap == AttractLoopB(BoundsWrap)

PlayingLoopWrap == PlayingLoopB(BoundsWrap)

GameOverLoopWrap == GameOverLoopB(BoundsWrap)

NextWrap == SetupWrap \/ AttractLoopWrap \/ PlayingLoopWrap \/ GameOverLoopWrap

SpecWrap == InitWrap /\ [][NextWrap]_vars

(***************************************************************************)
(* SpecLive: loop() keeps running and the clock keeps advancing.  Sessions *)
(* of every game are started right after setup() and followed to their     *)
(* end and through the GameOver screen, with clock steps of 0 and 1000 ms; *)
(* every iteration of loop() in Playing or GameOver that advances the      *)
(* clock is taken eventually.                                              *)
(***************************************************************************)
LiveScore == 1
LiveSteps == 5

\* The longest a session that scores LiveScore lasts with these clock steps:
\* the show phase of the Ptrn replay of length L takes 2 * L + 1 steps, the
\* last input phase one more.
LiveSessionMs == 1000 * ((LiveScore + 1) * (LiveScore + 3) + 1)

BoundsLive ==
  [dts |-> {0, 1000}, raws |-> {0, 1, 2, 3}, brtRaws |-> {0},
   bootRaws |-> {0},
   sleeps |-> {}, before |-> 0,
   eeproms |-> {Used},
   cap |-> [g \in Games |-> LiveScore],
   maxNow |-> BOOT_CLEAR_DELAY_MS + LiveSessionMs + LiveSteps * 1000,
   idleUntil |-> BOOT_CLEAR_DELAY_MS + LiveSessionMs + LiveSteps * 1000,
   ptrnSlack |-> LiveSessionMs,
   startUntil |-> BOOT_CLEAR_DELAY_MS, ptrnFree |-> 1,
   stageDraws |-> {0}, mixDraws |-> {0}]

InitLive == InitB(BoundsLive)

SetupLive == SetupB(BoundsLive)

\* Buttons are pressed in Attract right after setup() only.
AttractLoopLive ==
  /\ AttractLoopB(BoundsLive)
  /\ gBtn'.hasDown => CanStart(BoundsLive, clock')

PlayingLoopLive == PlayingLoopB(BoundsLive)

GameOverLoopLive == GameOverLoopB(BoundsLive)

NextLive == SetupLive \/ AttractLoopLive \/ PlayingLoopLive \/ GameOverLoopLive

\* loop() runs again with millis() advanced
Advance == clock' # clock

SpecLive ==
  /\ InitLive
  /\ [][NextLive]_vars
  /\ WF_vars(PlayingLoopLive /\ Advance)
  /\ WF_vars(GameOverLoopLive /\ Advance)

(***************************************************************************)
(* SpecParty: the Party Edition sketch, sessions of 6OR7 through the first *)
(* bucket (score 0..4) and the next one in every stage, clock steps of 0   *)
(* and 1000 ms.  The inputs and bounds are those of a bounds record, with  *)
(* B.stages the values of random(1, S7_COUNT).                             *)
(***************************************************************************)
PartyScore == 10
PartySteps == 2

BoundsParty ==
  [dts |-> {0, 1000}, raws |-> {0, 1, 2, 3}, bootRaws |-> {0, 1},
   cap |-> [g \in GamesParty |-> IF g = GAME_6OR7 THEN PartyScore ELSE 1],
   maxNow |-> BOOT_CLEAR_DELAY_MS + PartySteps * 1000,
   before |-> 0,
   idleUntil |-> BOOT_CLEAR_DELAY_MS,
   startUntil |-> BOOT_CLEAR_DELAY_MS,
   stages |-> 1 .. (S7_COUNT - 1),
   mixDraws |-> {0, 15, 30, 45, 60, 72, 84, 95}]

NoRandParty ==
  [d |-> 1, bs |-> <<1>>, stage |-> 1, six |-> 0, mixR |-> 0, mid |-> 1, left |-> 0]

\* The draws of a 6OR7 round that starts with score s, the last stage choice
\* being stage for the bucket block.
RandSix7(B, stage, block, s) ==
  LET pick == (s \div 5) % 256 # block
  IN  UNION {
        LET st == IF ~pick THEN stage ELSE IF s \div 5 = 0 THEN S7_NORMAL ELSE sd
            mix == st = S7_TRICK_MIX
        IN  UNION {
              LET canMid == st \in {S7_MID65, S7_MID65_NOT} \/ (mix /\ mr >= 45 /\ mr < 60)
              IN  { [NoRandParty EXCEPT !.stage = sd, !.six = x, !.mixR = mr,
                                        !.mid = md, !.left = lf]
                    : x \in 0 .. 1,
                      md \in (IF canMid THEN 0 .. 1 ELSE {1}),
                      lf \in (IF st = S7_MID65_NOT THEN 0 .. 1 ELSE {0}) }
              : mr \in (IF mix THEN B.mixDraws ELSE {0}) }
        : sd \in (IF pick THEN B.stages ELSE {1}) }

\* The draws of the round that starts in machine state p with score s.
RandRoundParty(B, p, s) ==
  IF p.gGame = GAME_CLSC \/ p.gGame = GAME_HARD THEN RandClassic
  ELSE IF p.gGame = GAME_NOT THEN RandNot
  ELSE IF p.gGame = GAME_CORD THEN RandClassic
  ELSE RandSix7(B, p.six7Stage, IF s = 0 THEN 255 ELSE p.six7StageBlock, s)

\* The state of the Party Edition after an iteration that leaves the machine
\* in state p at the clock value now.
CommitParty(p, now) ==
  /\ party' = [p EXCEPT !.clock = now, !.pc = "loop"]
  /\ UNCHANGED inoVars

InitParty == InitB(Bounds)

\* setup(), with its delays
SetupParty ==
  /\ party.pc = "boot"
  /\ \E raw \in BoundsParty.bootRaws :
       \E now \in {Add32(party.clock, BOOT_CLEAR_DELAY_MS
                                + (IF BootClear(raw) THEN BOOT_HI0_MS ELSE 0))} :
         CommitParty(setupParty(party, raw, now), now)

\* loop(), case MODE_ATTRACT
AttractLoopParty ==
  /\ party.pc = "loop"
  /\ party.gMode = MODE_ATTRACT
  /\ \E dt \in BoundsParty.dts, raw \in BoundsParty.raws :
       \E now \in {Add32(party.clock, dt)} :
         /\ InHorizon(BoundsParty, now)
         /\ InIdle(BoundsParty, now)
         /\ raw = 2 => CanStart(BoundsParty, now)
         /\ \E p1 \in {attractTickParty(readButtonsParty(party, raw), now)} :
              \E r \in (IF raw = 2 THEN RandRoundParty(BoundsParty, p1, 0)
                        ELSE {NoRandParty}) :
                CommitParty(attractHandleButton(p1, now, p1.gBtn, r), now)

\* loop(), case MODE_PLAYING
PlayingLoopParty ==
  /\ party.pc = "loop"
  /\ party.gMode = MODE_PLAYING
  /\ \E dt \in BoundsParty.dts, raw \in BoundsParty.raws :
       \E now \in {Add32(party.clock, dt)} :
         /\ InHorizon(BoundsParty, now)
         /\ \E p1 \in {playingTickParty(readButtonsParty(party, raw), now)} :
              \E r \in (IF p1.gBtn.has /\ p1.gBtn.act = BTN_DOWN
                        THEN RandRoundParty(BoundsParty, p1, p1.G.score + 1)
                        ELSE {NoRandParty}) :
                \E p2 \in {playingHandleButton(p1, now, p1.gBtn, r)} :
                  /\ p2.G.score <= BoundsParty.cap[p2.gGame]
                  /\ CommitParty(p2, now)

\* loop(), case MODE_GAMEOVER
GameOverLoopParty ==
  /\ party.pc = "loop"
  /\ party.gMode = MODE_GAMEOVER
  /\ \E dt \in BoundsParty.dts, raw \in BoundsParty.raws :
       \E now \in {Add32(party.clock, dt)} :
         /\ InHorizon(BoundsParty, now)
         /\ InIdle(BoundsParty, now)
         /\ CommitParty(gameOverTickParty(readButtonsParty(party, raw), now), now)

NextParty == SetupParty \/ AttractLoopParty \/ PlayingLoopParty \/ GameOverLoopParty

SpecParty == InitParty /\ [][NextParty]_vars

(***************************************************************************)
(* Properties                                                              *)
(***************************************************************************)
ReflexGames == {GAME_CLSC, GAME_HARD, GAME_NOT, GAME_67}

\* The stored high-score bytes of the store e
HiBytes(e) == [a \in 0 .. (brtAddr - 1) |-> e[a]]

\* The round window has elapsed at the clock value now.
WindowElapsed(now) == Ge32(Sub32(now, G.roundStartMs), G.windowMs)

\* C1: over any sequence of loop() iterations gMode changes only along
\* Attract -> Playing, Playing -> GameOver and GameOver -> Attract.
C1_ModeTransitions ==
  [][pc = "loop" =>
       \/ gMode' = gMode
       \/ gMode = MODE_ATTRACT /\ gMode' = MODE_PLAYING
       \/ gMode = MODE_PLAYING /\ gMode' = MODE_GAMEOVER
       \/ gMode = MODE_GAMEOVER /\ gMode' = MODE_ATTRACT]_vars

\* C1 witness: a session has run through Playing and GameOver back to Attract.
C1_Witness == pc = "loop" /\ gMode = MODE_ATTRACT /\ goCalls > 0

\* C2: once gMode has become GameOver (also in the loop() iteration that
\* detects the timeout), G.score, G.expectedBtn, G.roundStartMs and G.windowMs
\* stay as they were until Attract is entered.
C2_GameOverIsTerminal ==
  [][pc = "loop" /\ gMode' = MODE_GAMEOVER =>
       /\ G'.score = G.score
       /\ G'.expectedBtn = G.expectedBtn
       /\ G'.roundStartMs = G.roundStartMs
       /\ G'.windowMs = G.windowMs]_vars

\* C3: a Playing -> GameOver transition of game g with G.score > G.hi[g] sets
\* G.hi[g] and the stored value of g to G.score, with G.score <= G.hi[g] it
\* leaves both; the other games' entries never change at a GameOver, and no
\* other step after setup changes G.hi or the stored high scores.
C3_HiUpdate ==
  [][pc = "loop" =>
       IF gMode = MODE_PLAYING /\ gMode' = MODE_GAMEOVER
       THEN /\ IF G.score > G.hi[gGame]
               THEN /\ G'.hi[gGame] = G.score
                    /\ EepromGet16(EEPROM', hiAddr(gGame)) = G.score
               ELSE /\ G'.hi[gGame] = G.hi[gGame]
                    /\ EepromGet16(EEPROM', hiAddr(gGame))
                         = EepromGet16(EEPROM, hiAddr(gGame))
            /\ \A k \in Games \ {gGame} :
                 /\ G'.hi[k] = G.hi[k]
                 /\ EepromGet16(EEPROM', hiAddr(k)) = EepromGet16(EEPROM, hiAddr(k))
       ELSE /\ G'.hi = G.hi
            /\ HiBytes(EEPROM') = HiBytes(EEPROM)]_vars

\* C3 witness: a GameOver that recorded a new high score.
C3_Witness ==
  /\ gMode = MODE_GAMEOVER
  /\ hiSaves = 1
  /\ G.score > 0
  /\ G.hi[gGame] = G.score
  /\ EepromGet16(EEPROM, hiAddr(gGame)) = G.score

\* C4: the high-score store is written at most once per session, and a second
\* enterGameOver in the same loop() iteration leaves G.hi and the store as
\* one enterGameOver leaves them.
C4_SaveOncePerSession ==
  [][pc = "loop" =>
       /\ hiSaves' <= 1
       /\ (gMode = MODE_PLAYING /\ goCalls' >= 2) =>
            /\ G'.hi = enterGameOver(Cur, clock').G.hi
            /\ EEPROM' = enterGameOver(Cur, clock').EEPROM]_vars

\* C4 witness: enterGameOver ran twice in a session that recorded a high score.
C4_Witness == gMode = MODE_GAMEOVER /\ goCalls = 2 /\ hiSaves = 1

\* C5: within a session of a reflex game G.windowMs never grows from one
\* round to the next.
C5_WindowNeverGrows ==
  [][(/\ pc = "loop"
      /\ gGame \in ReflexGames
      /\ gMode = MODE_PLAYING
      /\ gMode' = MODE_PLAYING) => G'.windowMs <= G.windowMs]_vars

\* C6: in every Playing state G.windowMs >= WINDOW_MIN_MS in CLSC, HARD and
\* NOT and G.windowMs >= G67_MIN_MS in 67.
C6_WindowFloor ==
  (pc = "loop" /\ gMode = MODE_PLAYING) =>
    /\ gGame \in {GAME_CLSC, GAME_HARD, GAME_NOT} => G.windowMs >= WINDOW_MIN_MS
    /\ gGame = GAME_67 => G.windowMs >= G67_MIN_MS

Max(a, b) == IF a >= b THEN a ELSE b

\* C7: in a CLSC or NOT session the window after n successes is
\* max(360, 1800 - 20 * n); it is 360 for every n >= 72.
C7_WindowAfterN ==
  (pc = "loop" /\ gMode = MODE_PLAYING /\ gGame \in {GAME_CLSC, GAME_NOT}) =>
    /\ G.windowMs = Max(360, 1800 - 20 * G.score)
    /\ G.score >= 72 => G.windowMs = 360

\* C7 witness: 100 consecutive successes in CLSC.
C7_Witness ==
  /\ gMode = MODE_PLAYING
  /\ gGame = GAME_CLSC
  /\ G.score = 100
  /\ G.windowMs = 360

\* C8: in CLSC and HARD the expected button is in 1..3 and the first
\* button-down decides the round: the expected button before the window has
\* elapsed is a success (score + 1, a new round, mode stays Playing) and the
\* only one, any other button is GameOver.
C8_SinglePress ==
  [][(pc = "loop" /\ gMode = MODE_PLAYING /\ gGame \in {GAME_CLSC, GAME_HARD}) =>
       /\ G.expectedBtn \in 1 .. 3
       /\ (gBtn'.hasDown /\ gBtn'.num = G.expectedBtn /\ ~WindowElapsed(clock')) =>
            /\ gMode' = MODE_PLAYING
            /\ G'.score = G.score + 1
            /\ G'.roundStartMs = clock'
            /\ G'.expectedBtn \in 1 .. 3
       /\ (gBtn'.hasDown /\ gBtn'.num # G.expectedBtn) =>
            /\ gMode' = MODE_GAMEOVER
            /\ G'.score = G.score
       /\ G'.score # G.score => gBtn'.hasDown /\ gBtn'.num = G.expectedBtn
       /\ ~gBtn'.hasDown => G'.score = G.score /\ G'.expectedBtn = G.expectedBtn
     ]_vars

\* C8 witness: a HARD session after two successes.
C8_Witness == gMode = MODE_PLAYING /\ gGame = GAME_HARD /\ G.score = 2

\* C9: in every NOT round auxA < auxB are two members of 1..3 and
\* G.expectedBtn is the one member of 1..3 that is neither; pressing it is the
\* success and the only one, pressing a forbidden value is GameOver.
C9_ForbiddenPress ==
  [][(pc = "loop" /\ gMode = MODE_PLAYING /\ gGame = GAME_NOT) =>
       /\ G.auxA \in 1 .. 3
       /\ G.auxB \in 1 .. 3
       /\ G.auxA < G.auxB
       /\ (1 .. 3) \ {G.auxA, G.auxB} = {G.expectedBtn}
       /\ (gBtn'.hasDown /\ gBtn'.num = G.expectedBtn /\ ~WindowElapsed(clock')) =>
            /\ gMode' = MODE_PLAYING
            /\ G'.score = G.score + 1
            /\ G'.roundStartMs = clock'
       /\ (gBtn'.hasDown /\ gBtn'.num \in {G.auxA, G.auxB}) =>
            /\ gMode' = MODE_GAMEOVER
            /\ G'.score = G.score
       /\ G'.score # G.score => gBtn'.hasDown /\ gBtn'.num = G.expectedBtn
     ]_vars

\* C9 witness: a NOT round forbidding 1 and 3 after two successes.
C9_Witness ==
  /\ gMode = MODE_PLAYING
  /\ gGame = GAME_NOT
  /\ G.score = 2
  /\ G.auxA = 1
  /\ G.auxB = 3
  /\ G.expectedBtn = 2

\* The state of the round in flight
RoundState ==
  <<G, ptrnPhase, ptrnSeq, ptrnLen, ptrnIndex, ptrnInputTimer,
    g67Stage, g67Digit, g67Side, g67NotFlag, g67RoundChord,
    g67ChordWaitingSecond, g67ChordFirstBtn, g67ChordTimer, g67RoundSeq,
    g67SeqWaitingSecond, g67SeqFirstBtn, g67SeqTimer, g67NextStageAtScore>>

\* PTRN_TIMEOUT_MS have elapsed at now since the Ptrn input phase began or
\* since the last correct press.
PtrnElapsed(now) == Ge32(Sub32(now, ptrnInputTimer.t0), PTRN_TIMEOUT_MS)

\* C10: a Playing tick of CLSC, HARD, NOT or 67 at which the window has
\* elapsed, and a tick of the Ptrn input phase at which PTRN_TIMEOUT_MS have
\* elapsed, ends in GameOver; a tick before that with no button event leaves
\* the mode Playing and the round as it is.
C10_Timeout ==
  [][(pc = "loop" /\ gMode = MODE_PLAYING) =>
       /\ gGame \in ReflexGames =>
            /\ WindowElapsed(clock') => gMode' = MODE_GAMEOVER
            /\ (~WindowElapsed(clock') /\ ~gBtn'.hasDown) =>
                 gMode' = MODE_PLAYING /\ RoundState' = RoundState
       /\ (gGame = GAME_PTRN /\ ptrnPhase = PTRN_INPUT) =>
            /\ PtrnElapsed(clock') => gMode' = MODE_GAMEOVER
            /\ (~PtrnElapsed(clock') /\ ~gBtn'.hasDown) =>
                 gMode' = MODE_PLAYING /\ RoundState' = RoundState
     ]_vars

\* C10 witness: a Ptrn session ended by the input timeout, at exactly
\* PTRN_TIMEOUT_MS, with no button event.
C10_Witness ==
  /\ gMode = MODE_GAMEOVER
  /\ gGame = GAME_PTRN
  /\ ~gBtn.hasDown
  /\ gModeStartMs = clock
  /\ Sub32(clock, ptrnInputTimer.t0) = U32(PTRN_TIMEOUT_MS)

Min(a, b) == IF a <= b THEN a ELSE b

\* C11: in a Ptrn session ptrnLen is min(k + 1, PTRN_MAX_SEQ) after k
\* fully-correct replays (k = G.score): 1 at the start, one more after each
\* replay, never above 20, and a replay of the full 20 elements is a success
\* that keeps the length and the session.
C11_PtrnLength ==
  [][(pc = "loop" /\ gGame = GAME_PTRN /\ gMode' # MODE_ATTRACT) =>
       /\ ptrnLen' = Min(G'.score + 1, PTRN_MAX_SEQ)
       /\ ptrnLen' <= PTRN_MAX_SEQ
       /\ (gMode = MODE_PLAYING /\ G'.score # G.score) =>
            /\ G'.score = G.score + 1
            /\ ptrnLen' = (IF ptrnLen < PTRN_MAX_SEQ THEN ptrnLen + 1 ELSE ptrnLen)
            /\ gMode' = MODE_PLAYING
     ]_vars

\* C11 witness: the replay of the full 20 elements has succeeded and the
\* session goes on with length 20.
C11_Witness ==
  /\ gMode = MODE_PLAYING
  /\ gGame = GAME_PTRN
  /\ G.score = PTRN_MAX_SEQ + 1
  /\ ptrnLen = PTRN_MAX_SEQ
  /\ ptrnPhase = PTRN_SHOWING

\* C12: within a Ptrn session the elements of ptrnSeq below ptrnLen never
\* change and ptrnLen never shrinks; only the ptrnReset of a Playing entry
\* rewrites them.  The sequence of replay k is a prefix of the sequence of
\* replay k + 1.
C12_AppendOnly ==
  [][(pc = "loop" /\ gGame = GAME_PTRN /\ ~(gMode = MODE_ATTRACT /\ gMode' = MODE_PLAYING)) =>
       /\ ptrnLen' >= ptrnLen
       /\ \A i \in 0 .. (ptrnLen - 1) : ptrnSeq'[i] = ptrnSeq[i]
     ]_vars

\* C12 witness: in the third replay the two elements of the second replay
\* have been matched again.
C12_Witness ==
  /\ gMode = MODE_PLAYING
  /\ gGame = GAME_PTRN
  /\ G.score = 2
  /\ ptrnLen = 3
  /\ ptrnPhase = PTRN_INPUT
  /\ ptrnIndex = 2

\* The Ptrn input phase takes a button event of this iteration: it is on, or
\* the tick of this iteration turns it on.
PtrnAccepting == ptrnPhase = PTRN_INPUT \/ ptrnShowPos >= ptrnLen

\* The position the next button event is matched with
PtrnPos == IF ptrnPhase = PTRN_INPUT THEN ptrnIndex ELSE 0

\* C13: in a Ptrn session G.score grows by exactly 1 when the last element of
\* the sequence is matched in time and at no other time; a matched element
\* before the last one keeps the score, and a wrong button at any position
\* enters GameOver with the score unchanged.
C13_PtrnScore ==
  [][(pc = "loop" /\ gGame = GAME_PTRN /\ gMode = MODE_PLAYING) =>
       LET hit == /\ PtrnAccepting
                  /\ gBtn'.hasDown
                  /\ gBtn'.num = ptrnSeq[PtrnPos]
                  /\ ~(ptrnPhase = PTRN_INPUT /\ PtrnElapsed(clock'))
       IN  /\ (hit /\ PtrnPos = ptrnLen - 1) =>
                G'.score = G.score + 1 /\ gMode' = MODE_PLAYING
           /\ ~(hit /\ PtrnPos = ptrnLen - 1) => G'.score = G.score
           /\ (hit /\ PtrnPos < ptrnLen - 1) =>
                ptrnIndex' = PtrnPos + 1 /\ gMode' = MODE_PLAYING
           /\ (PtrnAccepting /\ gBtn'.hasDown /\ gBtn'.num # ptrnSeq[PtrnPos]) =>
                gMode' = MODE_GAMEOVER /\ G'.score = G.score
     ]_vars

\* C13 witness: after 3 replays the length is 4, and a wrong button at the
\* second position of the 4th replay has ended the session with score 3.
C13_Witness ==
  /\ gMode = MODE_GAMEOVER
  /\ gGame = GAME_PTRN
  /\ G.score = 3
  /\ ptrnLen = 4
  /\ ptrnIndex = 1
  /\ gBtn.hasDown
  /\ gBtn.num # ptrnSeq[1]
  /\ gModeStartMs = clock
  /\ ~PtrnElapsed(clock)

\* G67_SEQ_WIN_MS have elapsed at now since the pair timer was started.
SeqElapsed(now) == Ge32(Sub32(now, g67SeqTimer.t0), G67_SEQ_WIN_MS)

\* G67_CHORD_WIN_MS have elapsed at now since the chord timer was started.
ChordElapsed(now) == Ge32(Sub32(now, g67ChordTimer.t0), G67_CHORD_WIN_MS)

\* A 67 round in which the first press of an ordered pair has been taken
SeqSecond == gGame = GAME_67 /\ g67RoundSeq /\ g67SeqWaitingSecond

\* This iteration is a success of the round: one more point, a new round,
\* the mode stays Playing.
Success ==
  /\ gMode' = MODE_PLAYING
  /\ G'.score = G.score + 1
  /\ G'.roundStartMs = clock'

\* C14: time is checked before identity.  A button-down in the Ptrn input
\* phase when PTRN_TIMEOUT_MS have elapsed since the previous step, and the
\* second press of a 67 ordered pair when G67_SEQ_WIN_MS have elapsed since
\* the first, lead to GameOver whatever the button, and advance neither the
\* match index nor the score.
C14_TimeBeforeIdentity ==
  [][(pc = "loop" /\ gMode = MODE_PLAYING /\ gBtn'.hasDown) =>
       /\ (gGame = GAME_PTRN /\ ptrnPhase = PTRN_INPUT /\ PtrnElapsed(clock')) =>
            /\ gMode' = MODE_GAMEOVER
            /\ ptrnIndex' = ptrnIndex
            /\ G'.score = G.score
       /\ (SeqSecond /\ SeqElapsed(clock')) =>
            /\ gMode' = MODE_GAMEOVER
            /\ g67SeqWaitingSecond'
            /\ G'.score = G.score
            /\ G'.roundStartMs = G.roundStartMs
     ]_vars

\* C14 witness: the expected second button of a pair, pressed inside the
\* round window but after the pair window, has ended the session.
C14_Witness ==
  /\ gMode = MODE_GAMEOVER
  /\ SeqSecond
  /\ gBtn.hasDown
  /\ gBtn.num = G.auxA
  /\ gModeStartMs = clock
  /\ SeqElapsed(clock)
  /\ ~WindowElapsed(clock)

\* C15: in a 67 ordered-pair round a first press that is not the expected
\* first button is GameOver at once; the expected first button leaves the
\* round pending (the second press awaited, the score and the round as they
\* were, the mode Playing unless the round window has elapsed); and once the
\* pair window has elapsed without the second press, the round never succeeds:
\* a press, or the end of the round window, is GameOver, and until then
\* nothing changes.
C15_PairFailure ==
  [][(pc = "loop" /\ gMode = MODE_PLAYING /\ gGame = GAME_67 /\ g67RoundSeq) =>
       /\ (~g67SeqWaitingSecond /\ gBtn'.hasDown /\ gBtn'.num # g67SeqFirstBtn) =>
            /\ gMode' = MODE_GAMEOVER
            /\ G'.score = G.score
       /\ (~g67SeqWaitingSecond /\ gBtn'.hasDown /\ gBtn'.num = g67SeqFirstBtn) =>
            /\ g67RoundSeq'
            /\ g67SeqWaitingSecond'
            /\ G'.score = G.score
            /\ G'.roundStartMs = G.roundStartMs
            /\ gMode' = MODE_PLAYING <=> ~WindowElapsed(clock')
       /\ (g67SeqWaitingSecond /\ SeqElapsed(clock')) =>
            /\ G'.score = G.score
            /\ (gBtn'.hasDown \/ WindowElapsed(clock')) => gMode' = MODE_GAMEOVER
            /\ gMode' = MODE_PLAYING => RoundState' = RoundState
     ]_vars

\* C15 witness: button 1 then nothing in a round expecting 1 then 3; the
\* pair window has elapsed and the round window has ended the session.
C15_Witness ==
  /\ gMode = MODE_GAMEOVER
  /\ SeqSecond
  /\ g67SeqFirstBtn = 1
  /\ G.auxA = 3
  /\ ~gBtn.hasDown
  /\ gModeStartMs = clock
  /\ SeqElapsed(clock)
  /\ WindowElapsed(clock)

\* C16 as stated: after the expected first button, the expected second
\* button before G67_SEQ_WIN_MS have elapsed since the first press, at which
\* the pair window starts again, is a success.
C16_PairSuccess ==
  [][(pc = "loop" /\ gMode = MODE_PLAYING /\ gGame = GAME_67 /\ g67RoundSeq) =>
       /\ (~g67SeqWaitingSecond /\ gBtn'.hasDown /\ gBtn'.num = g67SeqFirstBtn) =>
            g67SeqTimer' = TimerStart(clock', G67_SEQ_WIN_MS)
       /\ (g67SeqWaitingSecond /\ gBtn'.hasDown /\ gBtn'.num = G.auxA
             /\ ~SeqElapsed(clock')) => Success
     ]_vars

\* C16 amended: after the expected first button, the expected second button
\* before G67_SEQ_WIN_MS have elapsed since the first press and before the
\* round window has elapsed since the round began is a success; the pair
\* window is counted from the first press.
C16_PairSuccessInRound ==
  [][(pc = "loop" /\ gMode = MODE_PLAYING /\ gGame = GAME_67 /\ g67RoundSeq) =>
       /\ (~g67SeqWaitingSecond /\ gBtn'.hasDown /\ gBtn'.num = g67SeqFirstBtn) =>
            g67SeqTimer' = TimerStart(clock', G67_SEQ_WIN_MS)
       /\ (g67SeqWaitingSecond /\ gBtn'.hasDown /\ gBtn'.num = G.auxA
             /\ ~SeqElapsed(clock') /\ ~WindowElapsed(clock')) => Success
     ]_vars

\* C16 witness: in the stage SEQ_67 a round has been won with button 3 as the
\* second press, and the round after it has begun.
C16_Witness ==
  /\ gMode = MODE_PLAYING
  /\ gGame = GAME_67
  /\ g67Stage = G67_SEQ_67
  /\ G.score = G67_INTRO_POINTS + 1
  /\ gBtn.hasDown
  /\ gBtn.num = 3
  /\ G.roundStartMs = clock
  /\ Ge32(Sub32(clock, gModeStartMs), G67_SEQ_WIN_MS)

\* The second press num of a chord is in time and completes the pair 1, 3.
ChordOk(num, now) ==
  /\ ~ChordElapsed(now)
  /\ {g67ChordFirstBtn, num} = {1, 3}

\* C17 as stated: in a 67 chord round the first button-down is only captured,
\* and the round is a success exactly when the second button-down arrives
\* before G67_CHORD_WIN_MS have elapsed since the first and the two are the
\* buttons 1 and 3 in either order; anything else is GameOver.
C17_Chord ==
  [][(pc = "loop" /\ gMode = MODE_PLAYING /\ gGame = GAME_67 /\ g67RoundChord) =>
       /\ (~g67ChordWaitingSecond /\ gBtn'.hasDown) =>
            /\ g67ChordWaitingSecond'
            /\ g67ChordFirstBtn' = gBtn'.num
            /\ G'.score = G.score
            /\ G'.roundStartMs = G.roundStartMs
       /\ (g67ChordWaitingSecond /\ gBtn'.hasDown) =>
            IF ChordOk(gBtn'.num, clock') THEN Success
            ELSE gMode' = MODE_GAMEOVER /\ G'.score = G.score
       /\ G'.score # G.score =>
            g67ChordWaitingSecond /\ gBtn'.hasDown /\ ChordOk(gBtn'.num, clock')
     ]_vars

\* C17 amended: the first button-down is only captured, and the round is a
\* success exactly when the second button-down arrives before
\* G67_CHORD_WIN_MS have elapsed since the first and before the round window
\* has elapsed since the round began, and the two are the buttons 1 and 3 in
\* either order; any other second press is GameOver, with the score
\* unchanged when the pair or the chord window fails.
C17_ChordInRound ==
  [][(pc = "loop" /\ gMode = MODE_PLAYING /\ gGame = GAME_67 /\ g67RoundChord) =>
       /\ (~g67ChordWaitingSecond /\ gBtn'.hasDown) =>
            /\ g67ChordWaitingSecond'
            /\ g67ChordFirstBtn' = gBtn'.num
            /\ G'.score = G.score
            /\ G'.roundStartMs = G.roundStartMs
       /\ (g67ChordWaitingSecond /\ gBtn'.hasDown) =>
            /\ Success <=> (ChordOk(gBtn'.num, clock') /\ ~WindowElapsed(clock'))
            /\ ~Success => gMode' = MODE_GAMEOVER
            /\ ~ChordOk(gBtn'.num, clock') => G'.score = G.score
       /\ G'.score # G.score =>
            g67ChordWaitingSecond /\ gBtn'.hasDown /\ ChordOk(gBtn'.num, clock')
     ]_vars

\* C17 witness: in the stage CHORD a round has been won with button 3 first
\* and button 1 second, and the next chord round has begun.
C17_Witness ==
  /\ gMode = MODE_PLAYING
  /\ gGame = GAME_67
  /\ g67Stage = G67_CHORD
  /\ g67RoundChord
  /\ G.score = G67_INTRO_POINTS + 1
  /\ gBtn.hasDown
  /\ gBtn.num = 1
  /\ G.roundStartMs = clock

\* C19: in the 67 game a round that starts with score < G67_INTRO_POINTS is
\* an intro round expecting button 1 for the digit 6 and button 3 for the
\* digit 7; a round that starts with score >= G67_INTRO_POINTS is not an
\* intro round; after the intro the stage is rolled when the score reaches
\* G67_INTRO_POINTS and then only when it reaches g67NextStageAtScore, which
\* every roll sets 6 or 7 above the score.
C19_Stages ==
  [][(pc = "loop" /\ gGame = GAME_67 /\ G'.roundStartMs = clock'
        /\ (gMode = MODE_PLAYING \/ gMode' = MODE_PLAYING)) =>
       /\ G'.score < G67_INTRO_POINTS =>
            /\ g67Stage' = G67_INTRO
            /\ g67Digit' \in {6, 7}
            /\ G'.expectedBtn = (IF g67Digit' = 6 THEN 1 ELSE 3)
       /\ G'.score >= G67_INTRO_POINTS =>
            /\ g67Stage' # G67_INTRO
            /\ IF g67Stage = G67_INTRO \/ G'.score >= g67NextStageAtScore
               THEN g67NextStageAtScore' \in {G'.score + 6, G'.score + 7}
               ELSE /\ g67Stage' = g67Stage
                    /\ g67NextStageAtScore' = g67NextStageAtScore
     ]_vars

\* C19 witness: the stage rolled at score 10 has been kept for 6 successes
\* and rolled again at score 16, to CHORD, for 7 successes.
C19_Witness ==
  /\ gMode = MODE_PLAYING
  /\ gGame = GAME_67
  /\ G.score = G67_INTRO_POINTS + 6
  /\ g67Stage = G67_CHORD
  /\ g67RoundChord
  /\ g67NextStageAtScore = G67_INTRO_POINTS + 6 + 7

(***************************************************************************)
(* Party Edition, 6OR7                                                     *)
(***************************************************************************)

\* A step of the Party Edition that runs six7BeginRound: the start of a session
\* of 6OR7 or a success.
Six7RoundStart ==
  /\ party'.gGame = GAME_6OR7
  /\ \/ party.gMode = MODE_ATTRACT /\ party'.gMode = MODE_PLAYING
     \/ party'.G.score = party.G.score + 1

Six7SessionStart ==
  party.gMode = MODE_ATTRACT /\ party'.gMode = MODE_PLAYING /\ party'.gGame = GAME_6OR7

\* C18: six7Stage and the bucket of its last choice change only at a round
\* start of 6OR7 whose bucket G.score / 5 differs from the bucket of the last
\* choice (the start of a session resets that bucket), the bucket recorded is
\* then the round's, so the stage is the same in all rounds of a bucket; and a
\* round started with score 0..4 is in S7_NORMAL whatever random() returns.
C18_StagePerBucket ==
  [][ /\ (party'.six7Stage # party.six7Stage
            \/ party'.six7StageBlock # party.six7StageBlock)
          => /\ Six7RoundStart
             /\ party'.six7StageBlock = (party'.G.score \div 5) % 256
             /\ Six7SessionStart \/ party.six7StageBlock # party'.six7StageBlock
      /\ (Six7RoundStart /\ ~Six7SessionStart
            /\ party'.G.score \div 5 = party.G.score \div 5)
          => party'.six7Stage = party.six7Stage
      /\ (Six7RoundStart /\ party'.G.score < 5) => party'.six7Stage = S7_NORMAL
    ]_vars

\* A round of the third bucket in a stage other than that of the second bucket
\* was, and other than S7_NORMAL: the session started in S7_NORMAL and the
\* stage was chosen again at score 5 and at score 10.
C18_Witness ==
  /\ party.gMode = MODE_PLAYING
  /\ party.gGame = GAME_6OR7
  /\ party.G.score = 10
  /\ party.six7StageBlock = 2
  /\ party.six7Stage = S7_SEQ_76

\* C20: in a round of 6OR7 that expects one button (G.expectedBtn in 1..3), in
\* any stage, the first button-down decides: G.expectedBtn before the round
\* window has elapsed adds 1 to the score and starts a round, and any other
\* button ends the session.
C20_SinglePress ==
  [][ (/\ party.pc = "loop"
       /\ party.gMode = MODE_PLAYING
       /\ party.gGame = GAME_6OR7
       /\ party.G.expectedBtn \in 1 .. 3
       /\ party'.gBtn.has
       /\ party'.gBtn.act = BTN_DOWN)
      => IF party'.gBtn.num = party.G.expectedBtn
         THEN Lt32(Sub32(party'.clock, party.G.roundStartMs), party.G.windowMs)
                => /\ party'.gMode = MODE_PLAYING
                   /\ party'.G.score = party.G.score + 1
                   /\ party'.G.roundStartMs = party'.clock
         ELSE party'.gMode = MODE_GAMEOVER
    ]_vars

(***************************************************************************)
(* Sessions, selection, GameOver                                           *)
(***************************************************************************)

\* The window of the first round of a session of game g.
StartWindow(g) ==
  IF g = GAME_HARD THEN HARD_START_MS
  ELSE IF g = GAME_67 THEN G67_START_INTRO_MS
  ELSE WINDOW_START_MS

\* C21: every step from Attract to Playing leaves the session in its initial
\* state whatever the globals held before: score 0, the starting window of
\* the game, a Ptrn sequence of length 1 at index 0, the 67 stage G67_INTRO.
C21_SessionStart ==
  [][ (gMode = MODE_ATTRACT /\ gMode' = MODE_PLAYING)
      => /\ G'.score = 0
         /\ G'.windowMs = StartWindow(gGame')
         /\ gGame' = GAME_PTRN => (ptrnLen' = 1 /\ ptrnIndex' = 0)
         /\ gGame' = GAME_67 => g67Stage' = G67_INTRO
    ]_vars

\* A second session of Ptrn has started (no session of Ptrn had scored when
\* the machine was switched on): the sequence, of length 2 when the last
\* session ended, has length 1 again.
C21_Witness ==
  /\ gMode = MODE_PLAYING
  /\ gGame = GAME_PTRN
  /\ G.hi[GAME_PTRN] >= 1
  /\ G.score = 0
  /\ ptrnLen = 1

\* A press of button b was sampled in the iteration of loop() just taken.
Pressed(b) == gBtn'.hasDown /\ gBtn'.num = b

\* C22: Playing is entered only from Attract, by button 2, on the screen of a
\* game, which then is the game played: the game is never GAME_BRT in
\* Playing.  On the brightness screen button 2 changes the brightness and
\* nothing else of the engine; buttons 1 and 3 leave the mode Attract.
C22_StartOnlyByButton2 ==
  [][ /\ gMode' = MODE_PLAYING => gGame' # GAME_BRT
      /\ (gMode # MODE_PLAYING /\ gMode' = MODE_PLAYING)
           => /\ gMode = MODE_ATTRACT
              /\ Pressed(2)
              /\ gGame # GAME_BRT
              /\ gGame' = gGame
      /\ (gMode = MODE_ATTRACT /\ gGame = GAME_BRT /\ Pressed(2))
           => /\ gMode' = MODE_ATTRACT
              /\ gGame' = GAME_BRT
              /\ gBrightnessInternal' # gBrightnessInternal
              /\ G' = G
              /\ gModeStartMs' = gModeStartMs
              /\ HiBytes(EEPROM') = HiBytes(EEPROM)
      /\ (gMode = MODE_ATTRACT /\ (Pressed(1) \/ Pressed(3)))
           => gMode' = MODE_ATTRACT
    ]_vars

\* Button 2 was pressed on the brightness screen a second after setup(): the
\* display value went from 1 to 2.
C22_Witness ==
  /\ gMode = MODE_ATTRACT
  /\ gGame = GAME_BRT
  /\ gBtn.hasDown
  /\ gBtn.num = 2
  /\ gBrightnessInternal = 1
  /\ gModeStartMs = U32(BOOT_CLEAR_DELAY_MS)
  /\ clock = U32(BOOT_CLEAR_DELAY_MS + 1000)

\* The machine state after n presses of button b in Attract
RECURSIVE Presses(_, _, _)
Presses(m, b, n) ==
  IF n = 0 THEN m ELSE Presses(attractHandleDown(m, clock, b, NoRand), b, n - 1)

\* C26: in Attract button 3 selects game (i + 1) mod GAME_COUNT and button 1
\* game (i - 1) mod GAME_COUNT, the game stays in 0 .. GAME_COUNT - 1,
\* buttons 3 then 1, or 1 then 3, select the same game again, and so do
\* GAME_COUNT presses of button 1, or of button 3.
C26_CircularSelection ==
  [][ /\ gGame \in Games
      /\ gGame' \in Games
      /\ gMode = MODE_ATTRACT
           => /\ Pressed(3) => gGame' = (gGame + 1) % GAME_COUNT
              /\ Pressed(1) => gGame' = (gGame + GAME_COUNT - 1) % GAME_COUNT
              /\ Presses(Presses(Cur, 3, 1), 1, 1).gGame = gGame
              /\ Presses(Presses(Cur, 1, 1), 3, 1).gGame = gGame
              /\ Presses(Cur, 3, GAME_COUNT).gGame = gGame
              /\ Presses(Cur, 1, GAME_COUNT).gGame = gGame
              /\ \A n \in 1 .. (GAME_COUNT - 1) : Presses(Cur, 3, n).gGame # gGame
    ]_vars

\* Button 3 was pressed on the last screen (brt): the first game is selected.
C26_Witness ==
  /\ gMode = MODE_ATTRACT
  /\ gGame = GAME_CLSC
  /\ gBtn.hasDown
  /\ gBtn.num = 3
  /\ G.windowMs = 0

\* C27: a press of button 1 or 3 in Attract leaves the mode, the score, the
\* window, the start of the round, the cached and the stored high scores
\* unchanged; outside Attract no step changes the game.
C27_SelectionFrame ==
  [][ /\ (gMode = MODE_ATTRACT /\ (Pressed(1) \/ Pressed(3)))
           => /\ gMode' = MODE_ATTRACT
              /\ G'.score = G.score
              /\ G'.windowMs = G.windowMs
              /\ G'.roundStartMs = G.roundStartMs
              /\ G'.hi = G.hi
              /\ HiBytes(EEPROM') = HiBytes(EEPROM)
      /\ gMode # MODE_ATTRACT => gGame' = gGame
    ]_vars

\* Button 1 was pressed in Attract after a session of HARD: the window and
\* the start of the round are those the session left.
C27_Witness ==
  /\ gMode = MODE_ATTRACT
  /\ gGame = GAME_CLSC
  /\ gBtn.hasDown
  /\ gBtn.num = 1
  /\ G.windowMs = HARD_START_MS
  /\ G.roundStartMs = U32(BOOT_CLEAR_DELAY_MS)

\* The machine state after an iteration of loop() at the clock value now in
\* which no button event is sampled.
Quiet(now) ==
  IF gMode = MODE_ATTRACT THEN attractTick(Cur, now)
  ELSE IF gMode = MODE_PLAYING THEN playingTick(Cur, now)
  ELSE gameOverTick(Cur, now)

\* C25: a button-down event of a button other than 1, 2 and 3 is treated as
\* no event: in every mode and game the iteration leaves the mode, the
\* score, the state of the round and the high scores as an iteration without
\* an event at the same time does, so it never ends a session.
C25_UnknownButtonIgnored ==
  [][ (pc = "loop" /\ gBtn'.hasDown /\ gBtn'.num \notin 1 .. 3)
      => /\ gMode' = Quiet(clock').gMode
         /\ gGame' = Quiet(clock').gGame
         /\ RoundState' = <<Quiet(clock').G, ptrnPhase, ptrnSeq, ptrnLen, ptrnIndex,
                            Quiet(clock').ptrnInputTimer,
                            g67Stage, g67Digit, g67Side, g67NotFlag, g67RoundChord,
                            g67ChordWaitingSecond, g67ChordFirstBtn, g67ChordTimer,
                            g67RoundSeq, g67SeqWaitingSecond, g67SeqFirstBtn,
                            g67SeqTimer, g67NextStageAtScore>>
         /\ HiBytes(EEPROM') = HiBytes(Quiet(clock').EEPROM)
    ]_vars

\* The globals of the engine other than the mode, its start and G
EngineRest ==
  <<EEPROM, gGame, gBrightnessInternal,
    ptrnPhase, ptrnSeq, ptrnLen, ptrnIndex, ptrnShowTimer, ptrnShowPos,
    ptrnShowingDigit, ptrnInputTimer,
    g67Stage, g67Digit, g67Side, g67NotFlag,
    g67RoundChord, g67ChordWaitingSecond, g67ChordFirstBtn, g67ChordTimer,
    g67RoundSeq, g67SeqWaitingSecond, g67SeqFirstBtn, g67SeqTimer,
    g67NextStageAtScore>>

\* C23: in GameOver an iteration of loop(), with or without a button event,
\* changes nothing of the engine while less than GAMEOVER_SCORE_MS +
\* GAMEOVER_HI_MS have passed since the mode was entered, and the first
\* iteration after that enters Attract with the game unchanged and the
\* score 0.
C23_GameOverByTime ==
  [][ gMode = MODE_GAMEOVER
      => /\ EngineRest' = EngineRest
         /\ IF Rel(clock') - Rel(gModeStartMs) < GAMEOVER_SCORE_MS + GAMEOVER_HI_MS
            THEN /\ gMode' = MODE_GAMEOVER
                 /\ gModeStartMs' = gModeStartMs
                 /\ G' = G
            ELSE /\ gMode' = MODE_ATTRACT
                 /\ gModeStartMs' = clock'
                 /\ G' = [G EXCEPT !.score = 0]
    ]_vars

\* Attract was entered from GameOver 4000 ms after a session that ended at
\* once, in an iteration in which button 2 was pressed: no session started.
C23_Witness ==
  /\ gMode = MODE_ATTRACT
  /\ gModeStartMs = U32(BOOT_CLEAR_DELAY_MS + GAMEOVER_SCORE_MS + GAMEOVER_HI_MS)
  /\ clock = gModeStartMs
  /\ gBtn.hasDown
  /\ gBtn.num = 2
  /\ G.score = 0
  /\ G.windowMs = WINDOW_START_MS - WINDOW_STEP_MS

\* C30: after setup(), boot clear included, the cached high score of every
\* game id is the stored one, an erased entry (0xFFFF) counting as 0.
C30_HiCacheMirrorsStore ==
  pc = "loop" => \A id \in Games : G.hi[id] = eepromLoadHi(EEPROM, id)

\* The store held the high score 2 for CLSC and was cleared at boot: a session
\* of CLSC that scored 1 has ended with a new high score.
C30_Witness ==
  /\ pc = "loop"
  /\ gMode = MODE_GAMEOVER
  /\ gGame = GAME_CLSC
  /\ G.score = 1
  /\ G.hi[GAME_CLSC] = 1
  /\ EepromGet16(EEPROM, hiAddr(GAME_CLSC)) = 1
  /\ EepromGet16(EEPROM, hiAddr(GAME_67)) = 65535

\* What eepromLoadHi returns for an entry that holds v
Decoded(v) == IF v = 65535 THEN 0 ELSE v

\* C28: eepromLoadHi(id) returns the last value v written with
\* eepromSaveHi(id, v), whatever was written to the other ids since, and 0
\* when v is the sentinel 0xFFFF or the entry was cleared; a write of any
\* 16-bit value to the store setup() found changes what is loaded for its id
\* only.
C28_StoreRoundTrip ==
  /\ pc = "store" => \A id \in Games : eepromLoadHi(EEPROM, id) = Decoded(G.hi[id])
  /\ (pc = "store" /\ hiSaves = 0)
       => \A id \in Games, v \in 0 .. 65535 :
            \A j \in Games :
              eepromLoadHi(eepromSaveHi(EEPROM, id, v), j)
                = IF j = id THEN Decoded(v) ELSE eepromLoadHi(EEPROM, j)

\* 0xFF00 was written for HARD and then the sentinel for NOT, next to it.
C28_Witness ==
  /\ pc = "store"
  /\ hiSaves = 2
  /\ G.hi[GAME_HARD] = 65280
  /\ G.hi[GAME_NOT] = 65535
  /\ eepromLoadHi(EEPROM, GAME_HARD) = 65280
  /\ eepromLoadHi(EEPROM, GAME_NOT) = 0
  /\ eepromLoadHi(EEPROM, GAME_CLSC) = 2

(***************************************************************************)
(* The overflow of millis()                                                *)
(***************************************************************************)
\* The milliseconds that have really passed from t0 to the iteration of
\* loop() that is being taken
Elapsed(t0) == Rel(clock') - Rel(t0)

\* C29: timeouts are decided by the time that has really passed, also across
\* the overflow of millis(): a reflex round ends in GameOver in the first
\* iteration of loop() at which G.windowMs have passed since G.roundStartMs
\* and in no iteration without a button event before it; the same holds for
\* the Ptrn input timer; a Ptrn show timer switches between digit and gap
\* exactly when its duration has passed; GameOver returns to Attract exactly
\* when GAMEOVER_SCORE_MS + GAMEOVER_HI_MS have passed.
C29_WrapSafeTimeouts ==
  [][ pc = "loop"
      => /\ (gMode = MODE_PLAYING /\ gGame # GAME_PTRN)
              => /\ Elapsed(G.roundStartMs) >= G.windowMs
                      => gMode' = MODE_GAMEOVER
                 /\ (Elapsed(G.roundStartMs) < G.windowMs /\ ~gBtn'.hasDown)
                      => gMode' = MODE_PLAYING
         /\ (gMode = MODE_PLAYING /\ gGame = GAME_PTRN /\ ptrnPhase = PTRN_INPUT)
              => /\ ptrnInputTimer.dur > 0
                 /\ Elapsed(ptrnInputTimer.t0) >= ptrnInputTimer.dur
                      => gMode' = MODE_GAMEOVER
                 /\ (Elapsed(ptrnInputTimer.t0) < ptrnInputTimer.dur
                       /\ ~gBtn'.hasDown)
                      => gMode' = MODE_PLAYING
         /\ (/\ gMode = MODE_PLAYING /\ gGame = GAME_PTRN
             /\ ptrnPhase = PTRN_SHOWING /\ ptrnShowPos < ptrnLen)
              => /\ ptrnShowTimer.dur > 0
                 /\ (Elapsed(ptrnShowTimer.t0) >= ptrnShowTimer.dur)
                      <=> (ptrnShowingDigit' # ptrnShowingDigit)
         /\ gMode = MODE_GAMEOVER
              => ((Elapsed(gModeStartMs) >= GAMEOVER_SCORE_MS + GAMEOVER_HI_MS)
                    <=> gMode' = MODE_ATTRACT)
    ]_vars

\* A Ptrn input timer started before the overflow ran out PTRN_TIMEOUT_MS
\* later, after the overflow, in an iteration without a button event.
C29_Witness ==
  /\ gMode = MODE_GAMEOVER
  /\ gGame = GAME_PTRN
  /\ ptrnPhase = PTRN_INPUT
  /\ ~gBtn.hasDown
  /\ gModeStartMs = clock
  /\ Rel(ptrnInputTimer.t0) < 0
  /\ Rel(clock) = Rel(ptrnInputTimer.t0) + PTRN_TIMEOUT_MS
  /\ Rel(clock) >= 0

(***************************************************************************)
(* Liveness                                                                *)
(***************************************************************************)
\* C24: when loop() keeps running with the clock advancing, a session in
\* Playing, in every game and in every phase of Ptrn, is followed by GameOver
\* or by an iteration with a button-down event, and GameOver is followed by
\* Attract.
C24_SessionsEnd ==
  /\ (gMode = MODE_PLAYING /\ ~gBtn.hasDown)
        ~> (gMode = MODE_GAMEOVER \/ gBtn.hasDown)
  /\ (gMode = MODE_GAMEOVER) ~> (gMode = MODE_ATTRACT)

\* A Ptrn session that scored is in the show phase of its second replay, the
\* last iteration without a button event.
C24_Witness ==
  /\ gMode = MODE_PLAYING
  /\ gGame = GAME_PTRN
  /\ G.score = 1
  /\ ptrnLen = 2
  /\ ptrnPhase = PTRN_SHOWING
  /\ ptrnShowPos = 1
  /\ ~gBtn.hasDown

(***************************************************************************)
(* GameOver summary, Ptrn input and storage, 67 round kinds                *)
(***************************************************************************)
\* C31: whenever the mode is GameOver, the high score of the active game is
\* at least the score of the session: G.hi[gGame] >= G.score.
C31_HiCoversScore ==
  (pc = "loop" /\ gMode = MODE_GAMEOVER /\ gGame # GAME_BRT)
    => G.hi[gGame] >= G.score

\* A button-down event of this iteration matches the element at ptrnIndex,
\* which is not the last one, in the input phase of a Ptrn session.
PtrnStepHit ==
  /\ pc = "loop"
  /\ gMode = MODE_PLAYING
  /\ gGame = GAME_PTRN
  /\ ptrnPhase = PTRN_INPUT
  /\ gBtn'.hasDown
  /\ gBtn'.num = ptrnSeq[ptrnIndex]
  /\ ptrnIndex + 1 < ptrnLen

\* What an intermediate match does
PtrnStepDone ==
  /\ ptrnIndex' = ptrnIndex + 1
  /\ ptrnInputTimer' = TimerStart(clock', PTRN_TIMEOUT_MS)
  /\ G'.score = G.score
  /\ ptrnLen' = ptrnLen
  /\ ptrnSeq' = ptrnSeq
  /\ ptrnPhase' = PTRN_INPUT
  /\ gMode' = MODE_PLAYING

\* In a Ptrn session ptrnIndex never decreases during the input phase, and
\* decreases only in an iteration whose tick begins an input phase.
PtrnIndexMonotone ==
  (pc = "loop" /\ gMode = MODE_PLAYING /\ gGame = GAME_PTRN)
    => /\ ptrnPhase = PTRN_INPUT => ptrnIndex' >= ptrnIndex
       /\ ptrnIndex' < ptrnIndex
            => (ptrnPhase = PTRN_SHOWING /\ ptrnShowPos >= ptrnLen
                  /\ ptrnPhase' = PTRN_INPUT)

\* C32 as stated: every correct button-down of the Ptrn input phase that is
\* not the last element increases ptrnIndex by 1, restarts ptrnInputTimer
\* with PTRN_TIMEOUT_MS from that press, keeps score, ptrnLen and the mode
\* Playing; ptrnIndex goes back only when a new input phase begins.
C32_IndexAdvances_AsStated ==
  [][ /\ PtrnStepHit => PtrnStepDone
      /\ PtrnIndexMonotone
    ]_vars

\* C32: a correct button-down of the Ptrn input phase that is not the last
\* element and is sampled before PTRN_TIMEOUT_MS have passed on
\* ptrnInputTimer increases ptrnIndex by 1, restarts ptrnInputTimer with
\* PTRN_TIMEOUT_MS from that press, keeps score, ptrnLen and the mode
\* Playing; one sampled when the timer has run out ends the session with
\* ptrnIndex unchanged; ptrnIndex goes back only when a new input phase
\* begins.
C32_IndexAdvances ==
  [][ /\ (PtrnStepHit /\ Elapsed(ptrnInputTimer.t0) < PTRN_TIMEOUT_MS)
           => PtrnStepDone
      /\ (PtrnStepHit /\ Elapsed(ptrnInputTimer.t0) >= PTRN_TIMEOUT_MS)
           => (gMode' = MODE_GAMEOVER /\ ptrnIndex' = ptrnIndex)
      /\ PtrnIndexMonotone
    ]_vars

\* The second of three elements was matched 2 * PTRN_SHOW_STEP_MS after the
\* first one.
C32_Witness ==
  /\ gMode = MODE_PLAYING
  /\ gGame = GAME_PTRN
  /\ ptrnPhase = PTRN_INPUT
  /\ ptrnLen = 3
  /\ ptrnIndex = 2
  /\ G.score = 2
  /\ gBtn.hasDown
  /\ gBtn.num = ptrnSeq[1]
  /\ ptrnInputTimer = TimerStart(clock, PTRN_TIMEOUT_MS)

\* The elements of the sequence that are in use are buttons.
PtrnSeqValid == \A i \in 0 .. (ptrnLen - 1) : ptrnSeq[i] \in {1, 2, 3}

\* The state playingTick leaves to playingHandleDown in this iteration
AfterTick == playingTick(Cur, clock')

\* ptrnHandleDown reads ptrnSeq[ptrnIndex] in this iteration: a button-down
\* event in the input phase, the input timer not done.
PtrnInputRead ==
  /\ pc = "loop" /\ gMode = MODE_PLAYING /\ gGame = GAME_PTRN
  /\ gBtn'.hasDown
  /\ AfterTick.ptrnPhase = PTRN_INPUT
  /\ ~TimerDone(AfterTick.ptrnInputTimer, clock')

\* ptrnTick reads ptrnSeq[ptrnShowPos] in this iteration.
PtrnShowRead ==
  /\ pc = "loop" /\ gMode = MODE_PLAYING /\ gGame = GAME_PTRN
  /\ ptrnPhase = PTRN_SHOWING
  /\ ptrnShowPos < ptrnLen
  /\ ~TimerDone(ptrnShowTimer, clock')
  /\ ptrnShowingDigit

\* The reads and writes of ptrnSeq stay inside the array and inside the part
\* in use.
PtrnAccessInBounds ==
  /\ PtrnInputRead => AfterTick.ptrnIndex < AfterTick.ptrnLen
  /\ PtrnShowRead => (ptrnShowPos < ptrnLen /\ ptrnShowPos < PTRN_MAX_SEQ)
  /\ (pc = "loop" /\ gMode = MODE_PLAYING /\ ptrnSeq' # ptrnSeq)
       => /\ ptrnLen < PTRN_MAX_SEQ
          /\ ptrnLen' = ptrnLen + 1
          /\ \A i \in 0 .. (PTRN_MAX_SEQ - 1) : i # ptrnLen => ptrnSeq'[i] = ptrnSeq[i]

\* C33 as stated: in every reachable state ptrnLen is in 1 .. PTRN_MAX_SEQ
\* and every element ptrnSeq[0 .. ptrnLen - 1] is 1, 2 or 3; the reads and
\* writes of ptrnSeq stay in bounds.
C33_PtrnStorage_AsStated ==
  [][ /\ ptrnLen' \in 1 .. PTRN_MAX_SEQ
      /\ PtrnAccessInBounds
      /\ PtrnSeqValid'
    ]_vars

\* C33: ptrnLen is always in 1 .. PTRN_MAX_SEQ; ptrnHandleDown reads
\* ptrnSeq[ptrnIndex] and ptrnTick reads ptrnSeq[ptrnShowPos] with an index
\* below ptrnLen; ptrnExtend writes at an index below PTRN_MAX_SEQ; and from
\* the start of the first Ptrn session on every element
\* ptrnSeq[0 .. ptrnLen - 1] is 1, 2 or 3.
C33_PtrnStorage ==
  [][ /\ ptrnLen' \in 1 .. PTRN_MAX_SEQ
      /\ PtrnAccessInBounds
      /\ (gMode' = MODE_PLAYING /\ gGame' = GAME_PTRN) => PtrnSeqValid'
      /\ PtrnSeqValid => PtrnSeqValid'
    ]_vars

\* The last element of the full sequence is read: ptrnIndex is
\* PTRN_MAX_SEQ - 1 in the input phase.
C33_Witness ==
  /\ gMode = MODE_PLAYING
  /\ gGame = GAME_PTRN
  /\ ptrnPhase = PTRN_INPUT
  /\ ptrnLen = PTRN_MAX_SEQ
  /\ ptrnIndex = PTRN_MAX_SEQ - 1
  /\ G.score = PTRN_MAX_SEQ
  /\ PtrnSeqValid

\* g67BeginRound runs in this iteration: a 67 session starts, or a round of
\* one is a success.
RoundBegan67 ==
  /\ pc = "loop"
  /\ gGame' = GAME_67
  /\ \/ gMode = MODE_ATTRACT /\ gMode' = MODE_PLAYING
     \/ gMode = MODE_PLAYING /\ G'.score = G.score + 1

\* The tick of this iteration begins a Ptrn input phase.
PtrnInputBegan ==
  /\ pc = "loop" /\ gMode = MODE_PLAYING /\ gGame = GAME_PTRN
  /\ ptrnPhase = PTRN_SHOWING
  /\ AfterTick.ptrnPhase = PTRN_INPUT

\* The stages whose rounds are neither a chord nor an ordered pair
SingleStages ==
  {G67_INTRO, G67_SWAP, G67_NOT, G67_FLASH, G67_FLASH_NOT, G67_GHOST,
   G67_BLINK, G67_SHORT_WIN}

\* C34: a 67 round that starts as a chord has g67ChordWaitingSecond false, one
\* that starts as an ordered pair has g67SeqWaitingSecond false, and a Ptrn
\* input phase starts with ptrnIndex 0 (a press of the same iteration is
\* matched with the first element), whatever the rounds and the session
\* before left in these variables; a round of a stage without chords and
\* pairs, and every round that is neither, is decided by its first
\* button-down against G.expectedBtn: it is never left pending.
C34_NoLeak ==
  [][ /\ RoundBegan67
           => /\ g67RoundChord' => ~g67ChordWaitingSecond'
              /\ g67RoundSeq' => ~g67SeqWaitingSecond'
              /\ g67Stage' \in SingleStages => (~g67RoundChord' /\ ~g67RoundSeq')
      /\ PtrnInputBegan
           => /\ AfterTick.ptrnIndex = 0
              /\ ptrnIndex' \in {0, 1}
              /\ ~gBtn'.hasDown => ptrnIndex' = 0
              /\ ptrnIndex' = 1 => gBtn'.num = ptrnSeq[0]
      /\ (/\ pc = "loop" /\ gMode = MODE_PLAYING /\ gGame = GAME_67
          /\ gBtn'.hasDown
          /\ (g67Stage \in SingleStages \/ (~g67RoundChord /\ ~g67RoundSeq)))
           => /\ G'.score # G.score => gBtn'.num = G.expectedBtn
              /\ gBtn'.num # G.expectedBtn
                   => (gMode' = MODE_GAMEOVER /\ G'.score = G.score)
              /\ (gBtn'.num = G.expectedBtn /\ ~WindowElapsed(clock')) => Success
    ]_vars

\* The second session of 67 has reached its first chord round, which waits
\* for its first press; the session before it ended in the middle of an
\* ordered pair.
C34_Witness ==
  /\ gMode = MODE_PLAYING
  /\ gGame = GAME_67
  /\ Rel(gModeStartMs) > BOOT_CLEAR_DELAY_MS
  /\ G.score = G67_INTRO_POINTS
  /\ g67RoundChord
  /\ ~g67ChordWaitingSecond
  /\ g67SeqWaitingSecond
  /\ G.hi[GAME_67] = G67_INTRO_POINTS

\* C35: in every Playing state of the 67 game g67RoundChord and g67RoundSeq
\* are not both true; in a chord or ordered-pair round G.expectedBtn is 0; in
\* any other round G.expectedBtn is 1 or 3, the button of the side g67Side
\* the digit is displayed on, or the opposite button when g67NotFlag is set;
\* g67Side is 0 or 3.
C35_RoundKind ==
  (pc = "loop" /\ gMode = MODE_PLAYING /\ gGame = GAME_67)
    => /\ ~(g67RoundChord /\ g67RoundSeq)
       /\ (g67RoundChord \/ g67RoundSeq) => G.expectedBtn = 0
       /\ (~g67RoundChord /\ ~g67RoundSeq)
            => /\ G.expectedBtn \in {1, 3}
               /\ G.expectedBtn = (IF (g67Side = 0) # g67NotFlag THEN 1 ELSE 3)
       /\ g67Side \in {0, 3}

\* A TRICK_MIX round with the sides swapped and the inverted mapping: the
\* digit 6 is displayed on the right and the left button is expected.
C35_Witness ==
  /\ gMode = MODE_PLAYING
  /\ gGame = GAME_67
  /\ g67Stage = G67_TRICK_MIX
  /\ ~g67RoundChord
  /\ ~g67RoundSeq
  /\ g67NotFlag
  /\ g67Digit = 6
  /\ g67Side = 3
  /\ G.expectedBtn = 1

\* C36: a button-down sampled while ptrnPhase is PTRN_SHOWING is ignored:
\* the iteration leaves the mode, the score, ptrnIndex, ptrnLen, the sequence
\* and the progress of the show as an iteration without a button event at
\* the same time does, and does not end the session.
C36_ShowIgnoresPresses ==
  [][ (/\ pc = "loop" /\ gMode = MODE_PLAYING /\ gGame = GAME_PTRN
       /\ ptrnPhase = PTRN_SHOWING
       /\ gBtn'.hasDown)
      => /\ gMode' = MODE_PLAYING
         /\ G'.score = G.score
         /\ ptrnIndex' = AfterTick.ptrnIndex
         /\ ptrnLen' = ptrnLen
         /\ ptrnSeq' = ptrnSeq
         /\ ptrnPhase' = AfterTick.ptrnPhase
         /\ ptrnShowPos' = AfterTick.ptrnShowPos
         /\ ptrnShowingDigit' = AfterTick.ptrnShowingDigit
         /\ ptrnShowTimer' = AfterTick.ptrnShowTimer
    ]_vars

(***************************************************************************)
(* The Timer type                                                          *)
(***************************************************************************)
\* C37: a Timer of duration 0 is never done, at any value of now, and its
\* remaining time is 0: the input phase it guards is not ended by any poll.
C37_ZeroIsUntimed ==
  [][ (pc = "timer" /\ ptrnInputTimer.dur = 0)
      => /\ ~TimerDone(ptrnInputTimer, clock')
         /\ TimerRemain(ptrnInputTimer, clock') = 0
         /\ gMode' = MODE_PLAYING
         /\ ptrnPhase' = PTRN_INPUT
         /\ goCalls' = 0
         /\ ptrnInputTimer' = ptrnInputTimer
    ]_vars

\* A timer of duration 0 started at 200 has been polled TimerPolls times, the
\* last time 2^32 - 1 ms after its start, and the input phase is still on.
C37_Witness ==
  /\ pc = "timer"
  /\ ptrnInputTimer = TimerStart(U32(200), 0)
  /\ hiSaves = TimerPolls
  /\ Sub32(clock, ptrnInputTimer.t0) = <<65535, 65535>>
  /\ gMode = MODE_PLAYING
  /\ ptrnPhase = PTRN_INPUT

====
